---- MODULE Spec2Model ----
(***************************************************************************)
(* Model of the Algotester -> CCS event-feed bridge:                       *)
(*   - StateManager (src/src/state_manager.py): entity tables, event log,  *)
(*     Previous-State Map, counters, persistence, snapshot-diff engine;    *)
(*   - poll_scoreboard and event_feed.generate (src/src/api.py): the       *)
(*     background poll task and the streaming subscribers.                 *)
(*                                                                         *)
(* Python strings that the code parses or builds (tokens, entity ids) are  *)
(* sequences of one-character strings, so that str() and int() are real    *)
(* conversions.  The id prefix "algotester-" is kept as one symbol.        *)
(***************************************************************************)
EXTENDS Integers, Sequences, FiniteSets, TLC

----------------------------------------------------------------------------
(* Bounds of the model *)

\* Poll cycles of a run of the poll task alone, and the most that one team's
\* row may hold over its problems (attempts + pending + accepted).
MaxPolls == 2
MaxLoad == 3
\* The same two for the runs with subscribers.
FeedPolls == 1
FeedLoad == 1
\* Event-feed requests, and how far behind the last token a client may resume.
NumSubscribers == 2
ResumeWindow == 1

\* The poll cycles, over all the lives of the process, of the runs with
\* crashes and restarts, and the load of their scoreboards
RestartPolls == 2
RestartLoad == 2

\* The poll cycles and the load of the runs that follow a pass that raised
\* through the cycles after it.
CyclePolls == 3
CycleLoad == 3

\* Values of LastImprovementMs the platform reports (milliseconds).
Times == {1000, 5000}

\* The one the platform reports in the runs with subscribers.
FeedTimes == {1000}

----------------------------------------------------------------------------
(* Configuration: mappings and the static contest package *)

None == "None"

\* team_mapping / problem_mapping: external id -> internal id (config.load_mapping)
team_mapping == [x \in {"101"} |-> "t1"]
problem_mapping == [x \in {"PA", "PB"} |-> IF x = "PA" THEN "a" ELSE "b"]

UnmappedTeam == "999"
UnmappedProblem == "PX"

\* dict.get(key): the value, or None when the key is absent
MapGet(m, k) == IF k \in DOMAIN m THEN m[k] ELSE None

contest_data == [id |-> <<"contest">>]
judgement_types_data == << <<"AC">>, <<"WA">>, <<"TLE">>, <<"RTE">>, <<"CE">> >>
languages_data == << <<"c">>, <<"cpp">>, <<"java">>, <<"kotlin">>, <<"python3">> >>
problems_data == << <<"a">>, <<"b">> >>
teams_data == << <<"t1">> >>

----------------------------------------------------------------------------
(* Strings and numbers *)

DigitChars == <<"0", "1", "2", "3", "4", "5", "6", "7", "8", "9">>

RECURSIVE StrOfNat(_)
\* str(n) for n >= 0: the decimal digits of n
StrOfNat(n) ==
    IF n < 10 THEN <<DigitChars[n + 1]>>
    ELSE Append(StrOfNat(n \div 10), DigitChars[(n % 10) + 1])

\* str(n) for an int
StrOfInt(n) == IF n < 0 THEN <<"-">> \o StrOfNat(0 - n) ELSE StrOfNat(n)

IsDigit(c) == \E d \in 1..10 : DigitChars[d] = c

DigitVal(c) == (CHOOSE d \in 1..10 : DigitChars[d] = c) - 1

RECURSIVE DigitsVal(_)
DigitsVal(s) ==
    IF s = <<>> THEN 0
    ELSE 10 * DigitsVal(SubSeq(s, 1, Len(s) - 1)) + DigitVal(s[Len(s)])

\* int(s): [ok |-> TRUE, val |-> n], or ok = FALSE where Python raises ValueError.
\* An optional sign followed by at least one digit; anything else is an error.
ParseInt(s) ==
    LET signed == Len(s) > 0 /\ s[1] \in {"-", "+"}
        body == IF signed THEN SubSeq(s, 2, Len(s)) ELSE s
    IN  IF Len(body) > 0 /\ \A i \in 1..Len(body) : IsDigit(body[i])
        THEN [ok |-> TRUE,
              val |-> IF signed /\ s[1] = "-" THEN 0 - DigitsVal(body) ELSE DigitsVal(body)]
        ELSE [ok |-> FALSE, val |-> 0]

Bool2Int(b) == IF b THEN 1 ELSE 0

Max(a, b) == IF a >= b THEN a ELSE b

Min(a, b) == IF a <= b THEN a ELSE b

\* f"algotester-{n}"
EntityId(n) == <<"algotester-">> \o StrOfInt(n)

----------------------------------------------------------------------------
(* Times.  A contest_time_ms argument is a rational number of milliseconds *)
(* [num, den] (Python computes it in floating point); timedelta keeps      *)
(* microseconds, rounding half to even; format_reltime cuts to H:MM:SS.sss *)

Ms(n) == [num |-> n, den |-> 1]

RoundHalfEven(n, d) ==
    LET q == n \div d
        r == n % d
    IN  IF 2 * r < d THEN q
        ELSE IF 2 * r > d THEN q + 1
        ELSE IF q % 2 = 0 THEN q ELSE q + 1

\* timedelta(milliseconds=t), as a count of microseconds
Timedelta(t) == RoundHalfEven(t.num * 1000, t.den)

\* contest_package.format_reltime
format_reltime(td) ==
    LET total_seconds == td \div 1000000
    IN  [h |-> total_seconds \div 3600,
         m |-> (total_seconds % 3600) \div 60,
         s |-> total_seconds % 60,
         ms |-> (td % 1000000) \div 1000]

\* The milliseconds a RELTIME value denotes
ReltimeMs(rt) == ((rt.h * 60 + rt.m) * 60 + rt.s) * 1000 + rt.ms

----------------------------------------------------------------------------
(* State *)

VARIABLES
    submissions,          \* StateManager._submissions (dict, in insertion order)
    judgements,           \* StateManager._judgements  (dict, in insertion order)
    events,               \* StateManager._events
    previous_state,       \* StateManager._previous_state: team -> problem -> result
    next_submission_id,   \* StateManager._next_submission_id
    next_judgement_id,    \* StateManager._next_judgement_id
    next_token,           \* StateManager._next_token
    lock,                 \* StateManager._lock: "free", or "poll" while the poll
                          \* task holds it
    disk,                 \* the files of data_dir, as the last save() left them
    new_events,           \* app.state.new_events: the flag of the asyncio.Event
    poll_pc,              \* where poll_scoreboard is suspended: "fetch" or "sleep"
    polls,                \* number of poll cycles started so far
    board,                \* the platform at the last fetch: problems shown, judged
                          \* counts, time
    last_poll,            \* what the last poll cycle did (observation only)
    subs                  \* the event_feed subscribers (generate() coroutines)

sm_vars == <<submissions, judgements, events, previous_state,
             next_submission_id, next_judgement_id, next_token, lock>>

vars == <<submissions, judgements, events, previous_state, next_submission_id,
          next_judgement_id, next_token, lock, disk, new_events, poll_pc, polls, board,
          last_poll, subs>>

\* The in-memory state of the StateManager as one value; exc is the exception
\* in flight ("none" when there is none) and calls the log of the
\* _process_team_problem calls of the pass under way.
SM == [submissions |-> submissions, judgements |-> judgements, events |-> events,
       previous_state |-> previous_state,
       next_submission_id |-> next_submission_id,
       next_judgement_id |-> next_judgement_id,
       next_token |-> next_token, exc |-> "none", calls |-> <<>>]

EmptySM == [submissions |-> <<>>, judgements |-> <<>>, events |-> <<>>,
            previous_state |-> <<>>,
            next_submission_id |-> 1, next_judgement_id |-> 1, next_token |-> 1,
            exc |-> "none", calls |-> <<>>]

----------------------------------------------------------------------------
(* Dictionaries kept as sequences of records with an id field *)

HasKey(d, k) == \E i \in 1..Len(d) : d[i].id = k

\* d[k] = v: replaces the value of an existing key in place, else appends
DictSet(d, k, v) ==
    IF HasKey(d, k)
    THEN [i \in 1..Len(d) |-> IF d[i].id = k THEN v ELSE d[i]]
    ELSE Append(d, v)

----------------------------------------------------------------------------
(* Event log and entity creation *)

AddEventNoIncrement(sm, event_type, obj_id) ==
    [sm EXCEPT !.events = Append(@, [token |-> StrOfInt(sm.next_token), id |-> obj_id,
                                     type |-> event_type, op |-> "create"])]

\* StateManager._add_event
AddEvent(sm, event_type, obj_id) ==
    [sm EXCEPT !.next_token = @ + 1,
               !.events = Append(@, [token |-> StrOfInt(sm.next_token), id |-> obj_id,
                                     type |-> event_type, op |-> "create"])]

\* StateManager._create_submission; the new submission's id is
\* EntityId(sm.next_submission_id)
CreateSubmission(sm, team_id, problem_id, contest_time_ms) ==
    LET sub_id == EntityId(sm.next_submission_id)
        submission == [id |-> sub_id, team_id |-> team_id, problem_id |-> problem_id,
                       contest_time |-> format_reltime(Timedelta(contest_time_ms))]
        s1 == [sm EXCEPT !.next_submission_id = @ + 1,
                         !.submissions = DictSet(@, sub_id, submission)]
    IN  AddEvent(s1, "submissions", sub_id)

\* StateManager._create_judgement
CreateJudgement(sm, submission_id, judgement_type_id, contest_time_ms) ==
    LET judg_id == EntityId(sm.next_judgement_id)
        judgement == [id |-> judg_id, submission_id |-> submission_id,
                      judgement_type_id |-> judgement_type_id,
                      contest_time |-> format_reltime(Timedelta(contest_time_ms))]
        s1 == [sm EXCEPT !.next_judgement_id = @ + 1,
                         !.judgements = DictSet(@, judg_id, judgement)]
    IN  AddEvent(s1, "judgements", judg_id)

\* sub = _create_submission(...); _create_judgement(sub["id"], ...)
CreateJudgedSubmission(sm, team_id, problem_id, judgement_type_id, contest_time_ms) ==
    CreateJudgement(CreateSubmission(sm, team_id, problem_id, contest_time_ms),
                    EntityId(sm.next_submission_id), judgement_type_id, contest_time_ms)

RECURSIVE CreateSubmissions(_, _, _, _, _)
\* for _ in range(n): _create_submission(team_id, problem_id, t)
CreateSubmissions(sm, team_id, problem_id, n, t) ==
    IF n <= 0 THEN sm
    ELSE CreateSubmissions(CreateSubmission(sm, team_id, problem_id, t),
                           team_id, problem_id, n - 1, t)

RECURSIVE JudgeAgain(_, _, _, _, _)
JudgeAgain(sm, submission_id, jt, n, t) ==
    IF n <= 0 THEN sm
    ELSE JudgeAgain(CreateJudgement(sm, submission_id, jt, t), submission_id, jt, n - 1, t)

\* One submission created before the loop, judged n times
CreateJudgedSubmissionsHoisted(sm, team_id, problem_id, jt, n, t) ==
    IF n <= 0 THEN sm
    ELSE JudgeAgain(CreateSubmission(sm, team_id, problem_id, t),
                    EntityId(sm.next_submission_id), jt, n, t)

RECURSIVE CreateJudgedSubmissions(_, _, _, _, _, _)
\* for _ in range(n): sub = _create_submission(...); _create_judgement(sub["id"], jt, t)
CreateJudgedSubmissions(sm, team_id, problem_id, jt, n, t) ==
    IF n <= 0 THEN sm
    ELSE CreateJudgedSubmissions(CreateJudgedSubmission(sm, team_id, problem_id, jt, t),
                                 team_id, problem_id, jt, n - 1, t)

----------------------------------------------------------------------------
(* Snapshot diff engine *)

\* The default of _process_team_problem for a pair never observed
UnseenResult == [is_accepted |-> FALSE, attempts |-> 0, pending_attempts |-> 0,
                 time_ms |-> 0]

\* team_id not in _previous_state or problem_id not in _previous_state[team_id]
FirstObservation(ps, team_id, problem_id) ==
    \/ team_id \notin DOMAIN ps
    \/ problem_id \notin DOMAIN ps[team_id]

PrevResultDefault(ps, team_id, problem_id) == UnseenResult

\* _previous_state.get(team_id, {}).get(problem_id, {...defaults...})
PrevResult(ps, team_id, problem_id) ==
    IF FirstObservation(ps, team_id, problem_id) THEN UnseenResult
    ELSE ps[team_id][problem_id]

\* time_step of _generate_initial_submissions
TimeStep(time_ms, total_judged) ==
    IF total_judged > 0 THEN [num |-> time_ms, den |-> total_judged + 1]
    ELSE Ms(time_ms)

SubTimeFromZero(time_step, i) == [num |-> time_step.num * i, den |-> time_step.den]

\* sub_time = time_step * (i + 1)
SubTime(time_step, i) == [num |-> time_step.num * (i + 1), den |-> time_step.den]

RECURSIVE GenerateWA(_, _, _, _, _, _)
\* for i in range(wa_count): the loop of _generate_initial_submissions, from index i
GenerateWA(sm, team_id, problem_id, time_step, i, wa_count) ==
    IF i >= wa_count THEN sm
    ELSE GenerateWA(CreateJudgedSubmission(sm, team_id, problem_id, "WA",
                                           SubTime(time_step, i)),
                    team_id, problem_id, time_step, i + 1, wa_count)

\* StateManager._generate_initial_submissions
GenerateInitialSubmissions(sm, team_id, problem_id, attempts, pending, is_accepted, time_ms) ==
    IF attempts = 0 /\ pending = 0 /\ ~is_accepted THEN sm
    ELSE
        LET wa_count == attempts
            total_judged == attempts + Bool2Int(is_accepted)
            time_step == TimeStep(time_ms, total_judged)
            s1 == GenerateWA(sm, team_id, problem_id, time_step, 0, wa_count)
            s2 == IF is_accepted
                  THEN CreateJudgedSubmission(s1, team_id, problem_id, "AC", Ms(time_ms))
                  ELSE s1
        IN  CreateSubmissions(s2, team_id, problem_id, pending, Ms(time_ms))

RECURSIVE PendingOf(_, _, _, _)
\* The loop of _get_pending_submissions: the submissions of the pair whose id
\* is not in judged_sub_ids, in dict order
PendingOf(subseq, team_id, problem_id, judged_sub_ids) ==
    IF subseq = <<>> THEN <<>>
    ELSE (IF /\ Head(subseq).team_id = team_id
             /\ Head(subseq).problem_id = problem_id
             /\ Head(subseq).id \notin judged_sub_ids
          THEN <<Head(subseq)>> ELSE <<>>)
         \o PendingOf(Tail(subseq), team_id, problem_id, judged_sub_ids)

RECURSIVE InsertByKey(_, _, _)
\* x placed after the elements of the sorted sequence whose key is <= x's (stable)
InsertByKey(sorted, x, key) ==
    IF sorted = <<>> THEN <<x>>
    ELSE IF key <= ParseInt(Head(sorted).id).val
         THEN IF key < ParseInt(Head(sorted).id).val
              THEN <<x>> \o sorted
              ELSE <<Head(sorted)>> \o InsertByKey(Tail(sorted), x, key)
         ELSE <<Head(sorted)>> \o InsertByKey(Tail(sorted), x, key)

RECURSIVE SortedById(_)
\* sorted(pending, key=lambda x: int(x["id"])), when every key parses
SortedById(seq) ==
    IF seq = <<>> THEN <<>>
    ELSE InsertByKey(SortedById(SubSeq(seq, 1, Len(seq) - 1)), seq[Len(seq)],
                     ParseInt(seq[Len(seq)].id).val)

\* The submissions of the pair that no judgement references, in dict order
UnjudgedOf(sm, team_id, problem_id) ==
    PendingOf(sm.submissions, team_id, problem_id,
              {sm.judgements[j].submission_id : j \in 1..Len(sm.judgements)})

\* StateManager._get_pending_submissions: [exc, subs].  sorted() evaluates
\* int(x["id"]) for every element, and int() raises ValueError on an id that is
\* not a decimal number.
GetPendingSubmissions(sm, team_id, problem_id) ==
    LET pending == UnjudgedOf(sm, team_id, problem_id)
    IN  IF \E i \in 1..Len(pending) : ~ParseInt(pending[i].id).ok
        THEN [exc |-> "ValueError", subs |-> <<>>]
        ELSE [exc |-> "none", subs |-> SortedById(pending)]

RECURSIVE JudgePending(_, _, _, _, _)
\* for i, sub in enumerate(pending_subs[:new_judged]): WA while i < wa_count, else AC
JudgePending(sm, selected, i, wa_count, time_ms) ==
    IF i >= Len(selected) THEN sm
    ELSE JudgePending(CreateJudgement(sm, selected[i + 1].id,
                                      IF i < wa_count THEN "WA" ELSE "AC", Ms(time_ms)),
                      selected, i + 1, wa_count, time_ms)

\* pending_subs[:n]
Take(seq, n) == SubSeq(seq, 1, IF n < Len(seq) THEN n ELSE Len(seq))

\* range(curr_pending - prev_pending) of the "pending increased" branch
NewPendingCount(curr_pending, prev_pending) ==
    IF curr_pending > prev_pending THEN curr_pending - prev_pending ELSE 0

\* direct_new = new_judged - pending_resolved
DirectNew(new_judged, pending_resolved) == new_judged - pending_resolved

\* The "pending submissions got judged" branch of _process_team_problem
ResolvePending(sm, team_id, problem_id, new_judged, just_accepted, time_ms) ==
    LET got == GetPendingSubmissions(sm, team_id, problem_id)
        wa_count == IF just_accepted THEN new_judged - 1 ELSE new_judged
    IN  IF got.exc # "none" THEN [sm EXCEPT !.exc = got.exc]
        ELSE JudgePending(sm, Take(got.subs, new_judged), 0, wa_count, time_ms)

\* The "direct submissions" branch of _process_team_problem
CreateDirect(sm, team_id, problem_id, direct_new, just_accepted, time_ms) ==
    IF just_accepted
    THEN CreateJudgedSubmission(
             CreateJudgedSubmissions(sm, team_id, problem_id, "WA", direct_new - 1,
                                     Ms(time_ms)),
             team_id, problem_id, "AC", Ms(time_ms))
    ELSE CreateJudgedSubmissions(sm, team_id, problem_id, "WA", direct_new, Ms(time_ms))

\* The body of StateManager._process_team_problem
DiffTeamProblem(sm, team_id, problem_id, result) ==
    LET prev == PrevResult(sm.previous_state, team_id, problem_id)
        curr_judged == result.attempts + Bool2Int(result.is_accepted)
        prev_judged == prev.attempts + Bool2Int(prev.is_accepted)
        pending_resolved == prev.pending_attempts - result.pending_attempts
        new_judged == curr_judged - prev_judged
        just_accepted == result.is_accepted /\ ~prev.is_accepted
        direct_new == DirectNew(new_judged, pending_resolved)
        s1 == CreateSubmissions(sm, team_id, problem_id,
                                NewPendingCount(result.pending_attempts,
                                                prev.pending_attempts),
                                Ms(result.time_ms))
        s2 == IF pending_resolved > 0 /\ new_judged > 0
              THEN ResolvePending(s1, team_id, problem_id, new_judged, just_accepted,
                                  result.time_ms)
              ELSE s1
    IN  IF FirstObservation(sm.previous_state, team_id, problem_id)
        THEN GenerateInitialSubmissions(sm, team_id, problem_id, result.attempts,
                                        result.pending_attempts, result.is_accepted,
                                        result.time_ms)
        ELSE IF s2.exc # "none" THEN s2
        ELSE IF direct_new > 0
             THEN CreateDirect(s2, team_id, problem_id, direct_new, just_accepted,
                               result.time_ms)
             ELSE s2

\* StateManager._process_team_problem, with the call recorded in sm.calls:
\* the pair, whether it was a first observation, the previous and the current
\* row, the counters before and after, and whether the call raised.
ProcessTeamProblem(sm, team_id, problem_id, result) ==
    LET after == DiffTeamProblem(sm, team_id, problem_id, result)
        seen == /\ team_id \in DOMAIN sm.previous_state
                /\ problem_id \in DOMAIN sm.previous_state[team_id]
        call == [team_id |-> team_id, problem_id |-> problem_id,
                 first |-> ~seen,
                 prev |-> IF seen THEN sm.previous_state[team_id][problem_id]
                          ELSE UnseenResult,
                 curr |-> result,
                 sub_from |-> sm.next_submission_id,
                 sub_to |-> after.next_submission_id,
                 judg_from |-> sm.next_judgement_id,
                 judg_to |-> after.next_judgement_id,
                 ev_from |-> Len(sm.events),
                 ev_to |-> Len(after.events),
                 raised |-> after.exc # "none"]
    IN  [after EXCEPT !.calls = Append(@, call)]

----------------------------------------------------------------------------
(* process_scoreboard, save, static initialization *)

\* A row is [team_id, results]; results is the dict of the row in its order,
\* a sequence of [problem, result].

RECURSIVE ProcessResultsSuspended(_, _, _)
\* The first inner loop giving up the event loop after its first mapped result:
\* what the other tasks would find if the pass could be suspended there
ProcessResultsSuspended(sm, ccs_team_id, results) ==
    IF results = <<>> \/ sm.exc # "none" THEN sm
    ELSE LET problem_id == MapGet(problem_mapping, Head(results).problem)
         IN  IF problem_id = None
             THEN ProcessResultsSuspended(sm, ccs_team_id, Tail(results))
             ELSE ProcessTeamProblem(sm, ccs_team_id, problem_id, Head(results).result)

RECURSIVE ProcessResults(_, _, _)
\* The first inner loop of process_scoreboard: every mapped problem of the row
\* goes through _process_team_problem; an exception ends the loop.
ProcessResults(sm, ccs_team_id, results) ==
    IF results = <<>> \/ sm.exc # "none" THEN sm
    ELSE LET problem_id == MapGet(problem_mapping, Head(results).problem)
         IN  ProcessResults(IF problem_id = None THEN sm
                            ELSE ProcessTeamProblem(sm, ccs_team_id, problem_id,
                                                    Head(results).result),
                            ccs_team_id, Tail(results))

\* d[k] = v on a dict kept as a function
FunSet(f, k, v) == [x \in (DOMAIN f) \cup {k} |-> IF x = k THEN v ELSE f[x]]

RECURSIVE StoreResults(_, _)
\* The second inner loop: _previous_state[team][problem] = result, mapped problems only
StoreResults(team_state, results) ==
    IF results = <<>> THEN team_state
    ELSE LET problem_id == MapGet(problem_mapping, Head(results).problem)
         IN  StoreResults(IF problem_id = None THEN team_state
                          ELSE FunSet(team_state, problem_id, Head(results).result),
                          Tail(results))

\* "Update previous state" of process_scoreboard, for one row
StorePreviousState(ps, ccs_team_id, results) ==
    LET team_state == IF ccs_team_id \in DOMAIN ps THEN ps[ccs_team_id] ELSE <<>>
    IN  FunSet(ps, ccs_team_id, StoreResults(team_state, results))

\* The iteration without the test of the team mapping: a team that has no
\* mapping goes on under its external id
ProcessRowAnyTeam(sm, row) ==
    LET mapped == MapGet(team_mapping, row.team_id)
        ccs_team_id == IF mapped = None THEN row.team_id ELSE mapped
        s1 == ProcessResults(sm, ccs_team_id, row.results)
    IN  IF s1.exc # "none" THEN s1
        ELSE [s1 EXCEPT !.previous_state =
                            StorePreviousState(@, ccs_team_id, row.results)]

\* One iteration of "for row in rows"
ProcessRow(sm, row) ==
    LET ccs_team_id == MapGet(team_mapping, row.team_id)
        s1 == ProcessResults(sm, ccs_team_id, row.results)
    IN  IF ccs_team_id = None THEN sm
        ELSE IF s1.exc # "none" THEN s1
        ELSE [s1 EXCEPT !.previous_state =
                            StorePreviousState(@, ccs_team_id, row.results)]

RECURSIVE DiffRows(_, _)
\* The first inner loop over every row of the batch, nothing stored in between
DiffRows(sm, rows) ==
    IF rows = <<>> \/ sm.exc # "none" THEN sm
    ELSE LET ccs_team_id == MapGet(team_mapping, Head(rows).team_id)
         IN  DiffRows(IF ccs_team_id = None THEN sm
                      ELSE ProcessResults(sm, ccs_team_id, Head(rows).results),
                      Tail(rows))

RECURSIVE StoreRows(_, _)
\* "Update previous state" for every row of the batch, in the order of the rows
StoreRows(ps, rows) ==
    IF rows = <<>> THEN ps
    ELSE LET ccs_team_id == MapGet(team_mapping, Head(rows).team_id)
         IN  StoreRows(IF ccs_team_id = None THEN ps
                       ELSE StorePreviousState(ps, ccs_team_id, Head(rows).results),
                       Tail(rows))

\* The loop with "Update previous state" moved behind it: every row is diffed
\* against the map as the batch found it
ProcessRowsBatch(sm, rows) ==
    LET s1 == DiffRows(sm, rows)
    IN  IF s1.exc # "none" THEN s1
        ELSE [s1 EXCEPT !.previous_state = StoreRows(@, rows)]

RECURSIVE ProcessRows(_, _)
\* "for row in rows": a row is diffed and stored before the next row is read
ProcessRows(sm, rows) ==
    IF rows = <<>> \/ sm.exc # "none" THEN sm
    ELSE ProcessRows(ProcessRow(sm, Head(rows)), Tail(rows))

\* What StateManager.save writes: the five files of data_dir
\* absent: the files that do not exist; torn: the files a crash left cut short
Files(sm) ==
    [submissions |-> sm.submissions, judgements |-> sm.judgements,
     events |-> sm.events, previous_state |-> sm.previous_state,
     meta |-> [next_submission_id |-> sm.next_submission_id,
               next_judgement_id |-> sm.next_judgement_id,
               next_token |-> sm.next_token],
     absent |-> {}, torn |-> {}]

\* The files in the order save() writes them
FileNames == <<"submissions", "judgements", "events", "previous_state", "meta">>

\* An empty data_dir
NoFiles == [Files(EmptySM) EXCEPT !.absent = {FileNames[i] : i \in 1..Len(FileNames)}]

\* data_dir when the process dies inside save(): the first k files are
\* rewritten; with tear the next one was opened for writing (truncated) and
\* not completed; the others are as they were
SaveCrashed(old, sm, k, tear) ==
    LET new == Files(sm)
        written == {FileNames[i] : i \in 1..k}
        cut == IF tear THEN {FileNames[k + 1]} ELSE {}
        Pick(f, o, n) == IF f \in written THEN n ELSE o
    IN  [submissions |-> Pick("submissions", old.submissions, new.submissions),
         judgements |-> Pick("judgements", old.judgements, new.judgements),
         events |-> Pick("events", old.events, new.events),
         previous_state |-> Pick("previous_state", old.previous_state, new.previous_state),
         meta |-> Pick("meta", old.meta, new.meta),
         absent |-> old.absent \ (written \cup cut),
         torn |-> (old.torn \ written) \cup cut]

\* _load without the reading of meta.json: the counters stay at 1
LoadFilesNoMeta(d) ==
    LET Has(f) == f \notin d.absent
    IN  [error |-> d.torn # {},
         sm |-> [EmptySM EXCEPT
                   !.submissions = IF Has("submissions") THEN d.submissions ELSE @,
                   !.judgements = IF Has("judgements") THEN d.judgements ELSE @,
                   !.events = IF Has("events") THEN d.events ELSE @,
                   !.previous_state = IF Has("previous_state") THEN d.previous_state ELSE @]]

\* StateManager.__init__ and _load: each file is read if it exists; a file
\* that is not valid JSON makes json.load raise (error), a missing one
\* leaves the initial value
LoadFiles(d) ==
    LET Has(f) == f \notin d.absent
    IN  [error |-> d.torn # {},
         sm |-> [EmptySM EXCEPT
                   !.submissions = IF Has("submissions") THEN d.submissions ELSE @,
                   !.judgements = IF Has("judgements") THEN d.judgements ELSE @,
                   !.events = IF Has("events") THEN d.events ELSE @,
                   !.previous_state = IF Has("previous_state") THEN d.previous_state ELSE @,
                   !.next_submission_id = IF Has("meta") THEN d.meta.next_submission_id ELSE @,
                   !.next_judgement_id = IF Has("meta") THEN d.meta.next_judgement_id ELSE @,
                   !.next_token = IF Has("meta") THEN d.meta.next_token ELSE @]]

RECURSIVE AddStaticEvents(_, _, _)
\* for x in xs: _add_event(event_type, x["id"], x)
AddStaticEvents(sm, event_type, ids) ==
    IF ids = <<>> THEN sm
    ELSE AddStaticEvents(AddEvent(sm, event_type, Head(ids)), event_type, Tail(ids))

\* initialize_static_events without the test of an empty log
InitializeStaticEventsAlways(sm) ==
    AddStaticEvents(
        AddStaticEvents(
            AddStaticEvents(
                AddStaticEvents(AddEvent(sm, "contests", contest_data.id),
                                "judgement-types", judgement_types_data),
                "languages", languages_data),
            "problems", problems_data),
        "teams", teams_data)

\* StateManager.initialize_static_events (its save() is taken by the caller)
InitializeStaticEvents(sm) ==
    IF sm.events # <<>> THEN sm
    ELSE AddStaticEvents(
             AddStaticEvents(
                 AddStaticEvents(
                     AddStaticEvents(AddEvent(sm, "contests", contest_data.id),
                                     "judgement-types", judgement_types_data),
                     "languages", languages_data),
                 "problems", problems_data),
             "teams", teams_data)

\* The StateManager of a first boot: empty data_dir, then the static events
BootSM == InitializeStaticEvents(EmptySM)

----------------------------------------------------------------------------
(* The platform and the poll task *)

ExternalTeam == "101"
ExternalProblems == {"PA", "PB"}

\* The results the platform can show at LastImprovementMs = t, within a load
ResultDomain(max_load, t) ==
    {r \in [is_accepted : BOOLEAN, attempts : 0..max_load,
            pending_attempts : 0..max_load, time_ms : {t}] :
        r.attempts + r.pending_attempts + Bool2Int(r.is_accepted) <= max_load}

Load(r) == r.attempts + r.pending_attempts + Bool2Int(r.is_accepted)

\* attempts and the accepted flag never go back (the input condition of the engine)
Monotonic(old, new) ==
    /\ new.attempts >= old.attempts
    /\ old.is_accepted => new.is_accepted

\* A result of a team or problem that has no mapping
UnmappedResult == [is_accepted |-> FALSE, attempts |-> 1, pending_attempts |-> 1,
                   time_ms |-> 1000]

\* What problem p weighs on the platform as it last showed it
BoardLoad(p) == board.judged[p].attempts + Bool2Int(board.judged[p].is_accepted)

\* The ways problem p appears in the fetched row at time t: not at all as long
\* as the platform never showed it, or with a result that is monotonic with
\* respect to the last one shown
Entries(p, t, budget) ==
    (IF p \in board.shown THEN {} ELSE {<<>>})
    \cup {<<[problem |-> p, result |-> x]>> :
            x \in {y \in ResultDomain(budget, t) : Monotonic(board.judged[p], y)}}

EntryLoad(p, e) == IF e = <<>> THEN BoardLoad(p) ELSE Load(e[1].result)

\* The judged part of the platform after it showed entry e for problem p
Shown(p, e) ==
    IF e = <<>> THEN board.judged[p]
    ELSE [attempts |-> e[1].result.attempts, is_accepted |-> e[1].result.is_accepted]

\* The rows a fetch returns: the row of an unmapped team, then the row of the
\* mapped team, with an unmapped problem and then the entries of PA and PB
FetchedRows(ea, eb) ==
    <<[team_id |-> UnmappedTeam,
       results |-> <<[problem |-> "PA", result |-> UnmappedResult]>>],
      [team_id |-> ExternalTeam,
       results |-> <<[problem |-> UnmappedProblem, result |-> UnmappedResult]>>
                   \o ea \o eb]>>

\* asyncio.Event.set(): the flag is set and every task waiting on it is woken
WakeAll(ss) == [s \in DOMAIN ss |->
                   IF ss[s].pc = "wait" THEN [ss[s] EXCEPT !.woken = TRUE] ELSE ss[s]]

\* One iteration of poll_scoreboard from the return of the fetch to the sleep:
\* process_scoreboard (diff, save), the new-data signal, the second save; the
\* lock, taken before and released after, is left to the action.
\* A ValueError of the engine leaves through "except Exception": no save, no signal.
PollCycle(rows) ==
    \E after \in {ProcessRows(SM, rows)} :
        LET ok == after.exc = "none"
            fresh == Len(after.events) > Len(events)
        IN  /\ submissions' = after.submissions
            /\ judgements' = after.judgements
            /\ events' = after.events
            /\ previous_state' = after.previous_state
            /\ next_submission_id' = after.next_submission_id
            /\ next_judgement_id' = after.next_judgement_id
            /\ next_token' = after.next_token
            /\ disk' = IF ok THEN Files(after) ELSE disk
            /\ new_events' = IF ok /\ fresh THEN TRUE ELSE new_events
            /\ subs' = IF ok /\ fresh THEN WakeAll(subs) ELSE subs
            /\ last_poll' = [outcome |-> IF ok THEN "ok" ELSE "error",
                             calls |-> after.calls, ev_from |-> Len(events)]

\* fetch_scoreboard returns: the platform shows, for some of the problems,
\* results that are monotonic with respect to what it showed before, at a time that
\* does not go back
PollFetched(max_polls, max_load, times) ==
    /\ poll_pc = "fetch"
    /\ polls < max_polls
    /\ \E t \in {x \in times : x >= board.time_ms} :
         \E ea \in Entries("PA", t, max_load - BoardLoad("PB")) :
            \E eb \in Entries("PB", t, max_load - EntryLoad("PA", ea)) :
               /\ PollCycle(FetchedRows(ea, eb))
               /\ board' = [judged |-> [p \in ExternalProblems |->
                                           IF p = "PA" THEN Shown(p, ea)
                                           ELSE Shown(p, eb)],
                            shown |-> board.shown
                                      \cup (IF ea = <<>> THEN {} ELSE {"PA"})
                                      \cup (IF eb = <<>> THEN {} ELSE {"PB"}),
                            time_ms |-> t]
    /\ lock' = lock
    /\ polls' = polls + 1
    /\ poll_pc' = "sleep"

\* The rows of a fetch whose pages overlap: the mapped team is on two pages,
\* with the entries ea and eb on the first and the later entry ea2 of PA on
\* the second
PagedRows(ea, eb, ea2) ==
    <<[team_id |-> ExternalTeam, results |-> ea \o eb],
      [team_id |-> ExternalTeam, results |-> ea2]>>

\* fetch_scoreboard returns after the ranking moved between two of its page
\* requests (offset += limit): the row of the mapped team is returned twice,
\* the second time as the platform showed it later
PollFetchedPaged(max_polls, max_load, times) ==
    /\ poll_pc = "fetch"
    /\ polls < max_polls
    /\ \E t \in {x \in times : x >= board.time_ms} :
         \E ea \in Entries("PA", t, max_load - BoardLoad("PB")) \ {<<>>} :
            \E eb \in Entries("PB", t, max_load - EntryLoad("PA", ea)) :
               \E x \in {y \in ResultDomain(max_load - EntryLoad("PB", eb), t) :
                            Monotonic(ea[1].result, y)} :
                  LET ea2 == <<[problem |-> "PA", result |-> x]>>
                  IN  /\ PollCycle(PagedRows(ea, eb, ea2))
                      /\ board' = [judged |-> [p \in ExternalProblems |->
                                                  IF p = "PA" THEN Shown(p, ea2)
                                                  ELSE Shown(p, eb)],
                                   shown |-> board.shown \cup {"PA"}
                                             \cup (IF eb = <<>> THEN {} ELSE {"PB"}),
                                   time_ms |-> t]
    /\ lock' = lock
    /\ polls' = polls + 1
    /\ poll_pc' = "sleep"

\* poll_scoreboard without its "except Exception": the error of the fetch
\* ends the task
PollFetchFailedUncaught(max_polls) ==
    /\ poll_pc = "fetch"
    /\ polls < max_polls
    /\ polls' = polls + 1
    /\ poll_pc' = "ended"
    /\ last_poll' = [outcome |-> "fetch_failed", calls |-> <<>>, ev_from |-> Len(events)]
    /\ UNCHANGED <<sm_vars, disk, new_events, board, subs>>

\* fetch_scoreboard raises (network error, HTTP status): logged, nothing else
PollFetchFailed(max_polls) ==
    /\ poll_pc = "fetch"
    /\ polls < max_polls
    /\ polls' = polls + 1
    /\ poll_pc' = "sleep"
    /\ last_poll' = [outcome |-> "fetch_failed", calls |-> <<>>, ev_from |-> Len(events)]
    /\ UNCHANGED <<sm_vars, disk, new_events, board, subs>>

\* asyncio.sleep(polling_interval) returns (max_wakes cuts the run)
PollSleepDone(max_wakes) ==
    /\ poll_pc = "sleep"
    /\ polls <= max_wakes
    /\ poll_pc' = "fetch"
    /\ UNCHANGED <<sm_vars, disk, new_events, polls, board, last_poll, subs>>

----------------------------------------------------------------------------
(* Event feed: get_events_since_token, get_last_token, the subscribers *)

\* Python's None where a token string is expected (no token string has a
\* character of more than one letter)
NoToken == <<"None">>

\* The comparison of get_events_since_token with >= in the place of >
RECURSIVE EventsAfterInclusive(_, _)
EventsAfterInclusive(log, token_int) ==
    IF log = <<>> THEN <<>>
    ELSE (IF ParseInt(Head(log).token).val >= token_int THEN <<Head(log)>> ELSE <<>>)
         \o EventsAfterInclusive(Tail(log), token_int)

\* The events whose token is greater than token_int
RECURSIVE EventsAfter(_, _)
EventsAfter(log, token_int) ==
    IF log = <<>> THEN <<>>
    ELSE (IF ParseInt(Head(log).token).val > token_int THEN <<Head(log)>> ELSE <<>>)
         \o EventsAfter(Tail(log), token_int)

\* get_events_since_token answering by position, log[token_int + 2 ..], in
\* the place of the comparison of tokens
GetEventsSinceTokenByIndex(log, next_tok, since_token) ==
    IF since_token = NoToken THEN [error |-> "none", events |-> log]
    ELSE IF ~ParseInt(since_token).ok
         THEN [error |-> "Invalid token format", events |-> <<>>]
    ELSE IF ParseInt(since_token).val < 0
         THEN [error |-> "Invalid token", events |-> <<>>]
    ELSE IF ParseInt(since_token).val > next_tok - 1
         THEN [error |-> "Unknown token", events |-> <<>>]
    ELSE [error |-> "none", events |-> SubSeq(log, ParseInt(since_token).val + 2, Len(log))]

\* StateManager.get_events_since_token: [error, events]; error names the
\* ValueError raised ("none" when the call returns)
GetEventsSinceToken(log, next_tok, since_token) ==
    IF since_token = NoToken THEN [error |-> "none", events |-> log]
    ELSE IF ~ParseInt(since_token).ok
         THEN [error |-> "Invalid token format", events |-> <<>>]
    ELSE IF ParseInt(since_token).val < 0
         THEN [error |-> "Invalid token", events |-> <<>>]
    ELSE IF ParseInt(since_token).val > next_tok - 1
         THEN [error |-> "Unknown token", events |-> <<>>]
    ELSE [error |-> "none", events |-> EventsAfter(log, ParseInt(since_token).val)]

\* StateManager.get_last_token
GetLastToken(log) == IF log # <<>> THEN log[Len(log)].token ELSE NoToken

\* The token check of the endpoint without the comparison with the highest token
ValidateSinceTokenNoRange(next_tok, since_token) ==
    IF since_token = NoToken THEN "none"
    ELSE IF ~ParseInt(since_token).ok THEN "Invalid token format"
    ELSE IF ParseInt(since_token).val < 0 THEN "Invalid token"
    ELSE "none"

\* The token check of the event_feed endpoint, before the stream starts: the
\* detail of the HTTP 400 it answers, or "none"
ValidateSinceToken(next_tok, since_token) ==
    IF since_token = NoToken THEN "none"
    ELSE IF ~ParseInt(since_token).ok THEN "Invalid token format"
    ELSE IF ParseInt(since_token).val < 0 THEN "Invalid token"
    ELSE IF ParseInt(since_token).val > next_tok - 1 THEN "Unknown token"
    ELSE "none"

Subscribers == 1..NumSubscribers

\* A subscriber: pc is where its request or its generate() coroutine stands
\*   "idle"      no request yet            "rejected"  answered HTTP 400
\*   "start"     accepted, generate() not yet run
\*   "backlog"   suspended at the yield of the backlog loop
\*   "wait"      suspended in wait_for(new_events.wait(), 30)
\*   "live"      suspended at the yield of the live loop (buf[1] was yielded)
\*   "keepalive" suspended at the yield of the keepalive line
\*   "closed"    disconnected
\* buf holds the events still to be yielded by the loop under way, woken tells
\* that new_events.wait() has returned, out lists the tokens yielded so far.
IdleSubscriber == [pc |-> "idle", since_token |-> NoToken, error |-> "none", buf |-> <<>>,
                   last_token |-> NoToken, woken |-> FALSE, out |-> <<>>, silent |-> 0]

\* The query strings a client sends as since_token: none, the last tokens
\* issued, the first one not issued yet, and two malformed ones
SinceTokens(window) ==
    {NoToken, <<"-", "1">>, <<"x">>}
    \cup {StrOfInt(n) : n \in Max(0, next_token - 1 - window)..next_token}

\* The coroutine reaches wait_for: it is woken at once if the flag is set.
\* Every way to the wait passes last_send_time = time.time(): silent, the
\* seconds from last_send_time to now, is 0
AtWait(sub) == [sub EXCEPT !.pc = "wait", !.buf = <<>>, !.woken = new_events, !.silent = 0]

\* GET /contests/{id}/event-feed with one of the query strings toks: the token
\* is validated, then the response starts
ConnectWith(s, toks) ==
    /\ subs[s].pc = "idle"
    /\ \E tok \in toks :
          LET err == ValidateSinceToken(next_token, tok)
          IN  subs' = [subs EXCEPT ![s].since_token = tok,
                                   ![s].error = err,
                                   ![s].pc = IF err = "none" THEN "start" ELSE "rejected"]
    /\ UNCHANGED <<sm_vars, disk, new_events, poll_pc, polls, board, last_poll>>

Connect(s, window) == ConnectWith(s, SinceTokens(window))

\* The request of a client that resumes from one of the last tokens issued
Resume(s, window) ==
    ConnectWith(s, {StrOfInt(n) : n \in Max(0, next_token - 1 - window)..(next_token - 1)})

\* generate() runs to its first suspension: the backlog is read and its first
\* event yielded, or, with no backlog, the cursor is taken and the wait begins
Start(s) ==
    /\ subs[s].pc = "start"
    /\ LET got == GetEventsSinceToken(events, next_token, subs[s].since_token)
       IN  subs' = [subs EXCEPT ![s] =
                IF got.error # "none" THEN [@ EXCEPT !.pc = "closed", !.error = got.error]
                ELSE IF got.events # <<>>
                THEN [@ EXCEPT !.pc = "backlog", !.buf = Tail(got.events),
                               !.out = Append(@, Head(got.events).token)]
                ELSE AtWait([@ EXCEPT !.last_token = GetLastToken(events)])]
    /\ UNCHANGED <<sm_vars, disk, new_events, poll_pc, polls, board, last_poll>>

\* The transport took the yielded line; the backlog loop goes on, and after its
\* last event: last_token = state_manager.get_last_token()
BacklogNext(s) ==
    /\ subs[s].pc = "backlog"
    /\ subs' = [subs EXCEPT ![s] =
            IF subs[s].buf # <<>>
            THEN [@ EXCEPT !.buf = Tail(@), !.out = Append(@, Head(subs[s].buf).token)]
            ELSE AtWait([@ EXCEPT !.last_token = GetLastToken(events)])]
    /\ UNCHANGED <<sm_vars, disk, new_events, poll_pc, polls, board, last_poll>>

\* The re-query reading the log after its current last token, not after the
\* last token sent
RequeryFromLast(sub, idle) ==
    LET got == GetEventsSinceToken(events, next_token, GetLastToken(events))
    IN  IF got.error # "none" THEN [sub EXCEPT !.pc = "closed", !.error = got.error]
        ELSE IF got.events # <<>>
        THEN [sub EXCEPT !.pc = "live", !.woken = FALSE, !.buf = got.events,
                         !.out = Append(@, Head(got.events).token)]
        ELSE IF idle
        THEN [sub EXCEPT !.pc = "keepalive", !.woken = FALSE]
        ELSE [sub EXCEPT !.woken = new_events']

\* After the wait: the events after last_token are read; the first is yielded,
\* or a keepalive line when nothing was sent for 120 seconds (idle), or the
\* loop goes back to the wait
Requery(sub, idle) ==
    LET got == GetEventsSinceToken(events, next_token, sub.last_token)
    IN  IF got.error # "none" THEN [sub EXCEPT !.pc = "closed", !.error = got.error]
        ELSE IF got.events # <<>>
        THEN [sub EXCEPT !.pc = "live", !.woken = FALSE, !.buf = got.events,
                         !.out = Append(@, Head(got.events).token)]
        ELSE IF idle
        THEN [sub EXCEPT !.pc = "keepalive", !.woken = FALSE]
        ELSE [sub EXCEPT !.woken = new_events']

\* new_events.wait() returned: the flag is cleared, then the log is read again
Wake(s) ==
    /\ subs[s].pc = "wait"
    /\ subs[s].woken
    /\ new_events' = FALSE
    /\ \E idle \in BOOLEAN :
          subs' = [subs EXCEPT ![s] = Requery(subs[s], idle)]
    /\ UNCHANGED <<sm_vars, disk, poll_pc, polls, board, last_poll>>

\* wait_for timed out after 30 seconds: the log is read again
Timeout(s) ==
    /\ subs[s].pc = "wait"
    /\ ~subs[s].woken
    /\ new_events' = new_events
    /\ \E idle \in BOOLEAN :
          subs' = [subs EXCEPT ![s] = Requery(subs[s], idle)]
    /\ UNCHANGED <<sm_vars, disk, poll_pc, polls, board, last_poll>>

\* Seconds: the timeout of wait_for, the silence after which a keepalive line
\* is due, and how far into a wait the signal can come
WaitTimeout == 30
KeepaliveAfter == 120
WakeDelays == {0, 15}

\* The re-query that sends a keepalive line whenever there is no event
TimedRequeryEager(sub, silent) ==
    LET after == Requery(sub, TRUE)
    IN  [after EXCEPT !.silent = IF after.pc \in {"wait", "keepalive"}
                                 THEN Min(silent, KeepaliveAfter) ELSE 0]

\* The re-query at silent seconds after last_send_time:
\* elif time.time() - last_send_time >= 120
TimedRequery(sub, silent) ==
    LET after == Requery(sub, silent >= KeepaliveAfter)
    IN  [after EXCEPT !.silent = IF after.pc \in {"wait", "keepalive"}
                                 THEN Min(silent, KeepaliveAfter) ELSE 0]

\* Wake with the clock: the signal came d seconds into the wait
TimedWake(s) ==
    /\ subs[s].pc = "wait"
    /\ subs[s].woken
    /\ new_events' = FALSE
    /\ \E d \in WakeDelays :
          subs' = [subs EXCEPT ![s] = TimedRequery(subs[s], subs[s].silent + d)]
    /\ UNCHANGED <<sm_vars, disk, poll_pc, polls, board, last_poll>>

\* Timeout with the clock: the wait lasted WaitTimeout seconds
TimedTimeout(s) ==
    /\ subs[s].pc = "wait"
    /\ ~subs[s].woken
    /\ new_events' = new_events
    /\ subs' = [subs EXCEPT ![s] = TimedRequery(subs[s], subs[s].silent + WaitTimeout)]
    /\ UNCHANGED <<sm_vars, disk, poll_pc, polls, board, last_poll>>

\* The live loop without last_token = event["token"]
LiveNextNoAdvance(s) ==
    /\ subs[s].pc = "live"
    /\ subs' = [subs EXCEPT ![s] =
            LET moved == [@ EXCEPT !.buf = Tail(@)]
            IN  IF moved.buf # <<>>
                THEN [moved EXCEPT !.out = Append(@, Head(moved.buf).token)]
                ELSE AtWait(moved)]
    /\ UNCHANGED <<sm_vars, disk, new_events, poll_pc, polls, board, last_poll>>

\* The transport took the yielded line of the live loop: last_token = event["token"],
\* then the next event is yielded or the loop goes back to the wait
LiveNext(s) ==
    /\ subs[s].pc = "live"
    /\ subs' = [subs EXCEPT ![s] =
            LET moved == [@ EXCEPT !.last_token = Head(subs[s].buf).token,
                                   !.buf = Tail(@)]
            IN  IF moved.buf # <<>>
                THEN [moved EXCEPT !.out = Append(@, Head(moved.buf).token)]
                ELSE AtWait(moved)]
    /\ UNCHANGED <<sm_vars, disk, new_events, poll_pc, polls, board, last_poll>>

\* The transport took the keepalive line
KeepaliveNext(s) ==
    /\ subs[s].pc = "keepalive"
    /\ subs' = [subs EXCEPT ![s] = AtWait(@)]
    /\ UNCHANGED <<sm_vars, disk, new_events, poll_pc, polls, board, last_poll>>

\* A disconnection that closes the streams of all the subscribers
DisconnectAll(s) ==
    /\ subs[s].pc \in {"backlog", "wait", "live", "keepalive"}
    /\ subs' = [u \in Subscribers |->
                  IF subs[u].pc \in {"backlog", "wait", "live", "keepalive"}
                  THEN [IdleSubscriber EXCEPT !.pc = "closed"] ELSE subs[u]]
    /\ UNCHANGED <<sm_vars, disk, new_events, poll_pc, polls, board, last_poll>>

\* The client goes away: the coroutine is closed where it is suspended and its
\* frame is dropped
Disconnect(s) ==
    /\ subs[s].pc \in {"backlog", "wait", "live", "keepalive"}
    /\ subs' = [subs EXCEPT ![s] = [IdleSubscriber EXCEPT !.pc = "closed"]]
    /\ UNCHANGED <<sm_vars, disk, new_events, poll_pc, polls, board, last_poll>>

----------------------------------------------------------------------------
(* Crash and restart.  poll_pc = "down": no process; "failed": the start   *)
(* raised.  A process that is not running has no memory: the variables of  *)
(* the StateManager are then those of EmptySM.                             *)

Forget ==
    /\ submissions' = EmptySM.submissions
    /\ judgements' = EmptySM.judgements
    /\ events' = EmptySM.events
    /\ previous_state' = EmptySM.previous_state
    /\ next_submission_id' = EmptySM.next_submission_id
    /\ next_judgement_id' = EmptySM.next_judgement_id
    /\ next_token' = EmptySM.next_token
    /\ lock' = "free"
    /\ new_events' = FALSE

Remember(sm) ==
    /\ submissions' = sm.submissions
    /\ judgements' = sm.judgements
    /\ events' = sm.events
    /\ previous_state' = sm.previous_state
    /\ next_submission_id' = sm.next_submission_id
    /\ next_judgement_id' = sm.next_judgement_id
    /\ next_token' = sm.next_token
    /\ lock' = "free"

\* create_app: StateManager(data_dir) loads, initialize_static_events adds the
\* static events to an empty log and saves; then the poll task starts
Startup ==
    /\ poll_pc = "down"
    /\ ~LoadFiles(disk).error
    /\ LET loaded == LoadFiles(disk).sm
       IN  /\ Remember(InitializeStaticEvents(loaded))
           /\ disk' = IF loaded.events = <<>>
                      THEN Files(InitializeStaticEvents(loaded)) ELSE disk
           /\ last_poll' = [outcome |-> "startup", calls |-> <<>>,
                            ev_from |-> Len(loaded.events)]
    /\ new_events' = FALSE
    /\ poll_pc' = "fetch"
    /\ UNCHANGED <<polls, board, subs>>

\* The process dies inside the save() of initialize_static_events
StartupCrashed ==
    /\ poll_pc = "down"
    /\ ~LoadFiles(disk).error
    /\ LoadFiles(disk).sm.events = <<>>
    /\ \E k \in 0..(Len(FileNames) - 1) : \E tear \in BOOLEAN :
          /\ k > 0 \/ tear
          /\ disk' = SaveCrashed(disk, InitializeStaticEvents(LoadFiles(disk).sm), k, tear)
    /\ last_poll' = [outcome |-> "crash", calls |-> <<>>, ev_from |-> 0]
    /\ UNCHANGED <<sm_vars, new_events, poll_pc, polls, board, subs>>

\* json.load raises on a file cut short: StateManager(...) raises, no server
StartupFailed ==
    /\ poll_pc = "down"
    /\ LoadFiles(disk).error
    /\ poll_pc' = "failed"
    /\ last_poll' = [outcome |-> "failed", calls |-> <<>>, ev_from |-> 0]
    /\ UNCHANGED <<sm_vars, disk, new_events, polls, board, subs>>

\* The process dies outside save()
Crash ==
    /\ poll_pc \in {"fetch", "sleep"}
    /\ Forget
    /\ poll_pc' = "down"
    /\ last_poll' = [outcome |-> "crash", calls |-> <<>>, ev_from |-> 0]
    /\ UNCHANGED <<disk, polls, board, subs>>

\* The process dies inside a save() of a poll cycle: the one that ends
\* process_scoreboard (it writes over the files of the cycle before) or the
\* one of poll_scoreboard after it (it writes over the files of the first)
PollCrashed(max_polls, max_load, times) ==
    /\ poll_pc = "fetch"
    /\ polls < max_polls
    /\ \E t \in {x \in times : x >= board.time_ms} :
         \E ea \in Entries("PA", t, max_load - BoardLoad("PB")) :
            \E eb \in Entries("PB", t, max_load - EntryLoad("PA", ea)) :
               \E after \in {ProcessRows(SM, FetchedRows(ea, eb))} :
                  /\ after.exc = "none"
                  /\ \E base \in {disk, Files(after)} :
                        \E k \in 0..(Len(FileNames) - 1) : \E tear \in BOOLEAN :
                           disk' = SaveCrashed(base, after, k, tear)
                  /\ board' = [judged |-> [p \in ExternalProblems |->
                                              IF p = "PA" THEN Shown(p, ea)
                                              ELSE Shown(p, eb)],
                               shown |-> board.shown
                                         \cup (IF ea = <<>> THEN {} ELSE {"PA"})
                                         \cup (IF eb = <<>> THEN {} ELSE {"PB"}),
                               time_ms |-> t]
    /\ Forget
    /\ polls' = polls + 1
    /\ poll_pc' = "down"
    /\ last_poll' = [outcome |-> "crash", calls |-> <<>>, ev_from |-> 0]
    /\ UNCHANGED subs

----------------------------------------------------------------------------
(* Shutdown: polling_task.cancel() *)

\* The cancellation delivered inside process_scoreboard, as if the loop over
\* the rows gave up the event loop after its first mapped result: the task
\* ends there, with what that call appended and nothing saved
CancelInPass ==
    /\ poll_pc = "fetch"
    /\ \E t \in {x \in Times : x >= board.time_ms} :
         \E ea \in Entries("PA", t, MaxLoad - BoardLoad("PB")) :
            \E eb \in Entries("PB", t, MaxLoad - EntryLoad("PA", ea)) :
               \E after \in {ProcessResultsSuspended(SM, MapGet(team_mapping, ExternalTeam),
                                                      ea \o eb)} :
                  /\ submissions' = after.submissions
                  /\ judgements' = after.judgements
                  /\ events' = after.events
                  /\ previous_state' = after.previous_state
                  /\ next_submission_id' = after.next_submission_id
                  /\ next_judgement_id' = after.next_judgement_id
                  /\ next_token' = after.next_token
    /\ poll_pc' = "cancelled_fetch"
    /\ UNCHANGED <<lock, disk, new_events, polls, board, last_poll, subs>>

\* shutdown() cancels the poll task: CancelledError is raised in the task at
\* the await where it is suspended, the fetch or the sleep (the lock is free
\* whenever the task asks for it, and the pass has no await), and it is not an
\* Exception, so "except Exception" lets it through and the task ends
Cancel ==
    /\ poll_pc \in {"fetch", "sleep"}
    /\ poll_pc' = IF poll_pc = "fetch" THEN "cancelled_fetch" ELSE "cancelled_sleep"
    /\ UNCHANGED <<sm_vars, disk, new_events, polls, board, last_poll, subs>>

----------------------------------------------------------------------------
(* The poll cycle with the lock of process_scoreboard, step by step *)

\* The lock given back only on the way out of a block that returned
ReleaseIfReturned(ok) == IF ok THEN "free" ELSE "poll"

\* __aexit__ of "async with self._lock": the lock is released however the
\* block ends, by return or by exception
Release(ok) == "free"

\* fetch_scoreboard returned; process_scoreboard is called and reaches
\* "async with self._lock"
PollRequestLock ==
    /\ poll_pc = "fetch"
    /\ poll_pc' = "acquire"
    /\ UNCHANGED <<sm_vars, disk, new_events, polls, board, last_poll, subs>>

\* Lock.acquire(): taken at once when the lock is free; a holder of the lock
\* that asks again waits for a release
PollAcquire ==
    /\ poll_pc = "acquire"
    /\ lock = "free"
    /\ lock' = "poll"
    /\ poll_pc' = "pass"
    /\ UNCHANGED <<submissions, judgements, events, previous_state,
                   next_submission_id, next_judgement_id, next_token,
                   disk, new_events, polls, board, last_poll, subs>>

\* The body of process_scoreboard under the lock, the release, and the rest
\* of the iteration up to the sleep
PollPass(max_polls, max_load, times) ==
    /\ poll_pc = "pass"
    /\ polls < max_polls
    /\ \E t \in {x \in times : x >= board.time_ms} :
         \E ea \in Entries("PA", t, max_load - BoardLoad("PB")) :
            \E eb \in Entries("PB", t, max_load - EntryLoad("PA", ea)) :
               /\ PollCycle(FetchedRows(ea, eb))
               /\ board' = [judged |-> [p \in ExternalProblems |->
                                           IF p = "PA" THEN Shown(p, ea)
                                           ELSE Shown(p, eb)],
                            shown |-> board.shown
                                      \cup (IF ea = <<>> THEN {} ELSE {"PA"})
                                      \cup (IF eb = <<>> THEN {} ELSE {"PB"}),
                            time_ms |-> t]
    /\ lock' = Release(last_poll'.outcome = "ok")
    /\ polls' = polls + 1
    /\ poll_pc' = "sleep"

\* The same for a scoreboard that has no rows: nothing to diff, the save
PollPassQuiet ==
    /\ poll_pc = "pass"
    /\ PollCycle(<<>>)
    /\ lock' = Release(last_poll'.outcome = "ok")
    /\ poll_pc' = "sleep"
    /\ UNCHANGED <<polls, board>>

----------------------------------------------------------------------------
(* Specifications *)

Init ==
    /\ submissions = BootSM.submissions
    /\ judgements = BootSM.judgements
    /\ events = BootSM.events
    /\ previous_state = BootSM.previous_state
    /\ next_submission_id = BootSM.next_submission_id
    /\ next_judgement_id = BootSM.next_judgement_id
    /\ next_token = BootSM.next_token
    /\ lock = "free"
    /\ disk = Files(BootSM)
    /\ new_events = FALSE
    /\ poll_pc = "fetch"
    /\ polls = 0
    /\ board = [judged |-> [p \in ExternalProblems |->
                                [attempts |-> 0, is_accepted |-> FALSE]],
                shown |-> {}, time_ms |-> 0]
    /\ last_poll = [outcome |-> "none", calls |-> <<>>, ev_from |-> 0]
    /\ subs = [s \in Subscribers |-> IdleSubscriber]

\* The poll task alone, over the whole range of scoreboards
NextEngine ==
    \/ PollFetched(MaxPolls, MaxLoad, Times)
    \/ PollFetchFailed(MaxPolls)
    \/ PollSleepDone(MaxPolls - 1)

SpecEngine == Init /\ [][NextEngine]_vars

\* The poll task and the subscribers of the event feed
Next ==
    \/ PollFetched(FeedPolls, FeedLoad, FeedTimes)
    \/ PollFetchFailed(FeedPolls)
    \/ PollSleepDone(FeedPolls)
    \/ \E s \in Subscribers : Connect(s, ResumeWindow)
    \/ \E s \in Subscribers : Start(s)
    \/ \E s \in Subscribers : BacklogNext(s)
    \/ \E s \in Subscribers : Wake(s)
    \/ \E s \in Subscribers : Timeout(s)
    \/ \E s \in Subscribers : LiveNext(s)
    \/ \E s \in Subscribers : KeepaliveNext(s)
    \/ \E s \in Subscribers : Disconnect(s)

Spec == Init /\ [][Next]_vars

\* Subscribers that resume from a recent token and stay connected, with the
\* scheduling the event loop gives them: a wait that has returned or timed out
\* is resumed, and a line yielded to the transport of a client that keeps
\* reading is taken
NextLive ==
    \/ PollFetched(FeedPolls, FeedLoad, FeedTimes)
    \/ PollFetchFailed(FeedPolls)
    \/ PollSleepDone(FeedPolls)
    \/ \E s \in Subscribers : Resume(s, ResumeWindow)
    \/ \E s \in Subscribers : Start(s)
    \/ \E s \in Subscribers : BacklogNext(s)
    \/ \E s \in Subscribers : Wake(s)
    \/ \E s \in Subscribers : Timeout(s)
    \/ \E s \in Subscribers : LiveNext(s)
    \/ \E s \in Subscribers : KeepaliveNext(s)

\* The wait of a subscriber ends: the signal or the 30-second timeout
WaitEnds(s) == Wake(s) \/ Timeout(s)

\* Weak fairness of the steps of a subscriber's coroutine. For WaitEnds it is
\* written out, with the state in which the step can be taken (suspended in
\* the wait) in the place of ENABLED <<WaitEnds(s)>>_vars.
SpecLive ==
    /\ Init
    /\ [][NextLive]_vars
    /\ \A s \in Subscribers :
          /\ WF_vars(LiveNext(s))
          /\ WF_vars(KeepaliveNext(s))
          /\ ([]<>(subs[s].pc # "wait") \/ []<><<WaitEnds(s)>>_vars)

\* The poll task and subscribers that stay connected, with the clock of the
\* keepalive
NextTimed ==
    \/ PollFetched(FeedPolls, FeedLoad, FeedTimes)
    \/ PollFetchFailed(FeedPolls)
    \/ PollSleepDone(FeedPolls)
    \/ \E s \in Subscribers : Resume(s, ResumeWindow)
    \/ \E s \in Subscribers : Start(s)
    \/ \E s \in Subscribers : BacklogNext(s)
    \/ \E s \in Subscribers : TimedWake(s)
    \/ \E s \in Subscribers : TimedTimeout(s)
    \/ \E s \in Subscribers : LiveNext(s)
    \/ \E s \in Subscribers : KeepaliveNext(s)

SpecTimed == Init /\ [][NextTimed]_vars

\* The poll task alone over three cycles, the platform's clock standing
NextCycles ==
    \/ PollFetched(CyclePolls, CycleLoad, FeedTimes)
    \/ PollFetchFailed(CyclePolls)
    \/ PollSleepDone(CyclePolls - 1)

SpecCycles == Init /\ [][NextCycles]_vars

\* The poll task alone, with fetches whose pages overlap
NextPaged ==
    \/ PollFetched(MaxPolls, MaxLoad, FeedTimes)
    \/ PollFetchedPaged(MaxPolls, MaxLoad, FeedTimes)
    \/ PollSleepDone(MaxPolls - 1)

SpecPaged == Init /\ [][NextPaged]_vars

\* The poll task until the shutdown cancels it
NextShutdown ==
    \/ PollFetched(MaxPolls, MaxLoad, Times)
    \/ PollFetchFailed(MaxPolls)
    \/ PollSleepDone(MaxPolls - 1)
    \/ Cancel

SpecShutdown == Init /\ [][NextShutdown]_vars

\* The poll task for ever, the lock step by step: MaxPolls cycles that find
\* the platform moved or fail to fetch, and then cycles that find no rows
NextLock ==
    \/ PollRequestLock
    \/ PollAcquire
    \/ PollPass(MaxPolls, MaxLoad, FeedTimes)
    \/ PollPassQuiet
    \/ PollFetchFailed(MaxPolls)
    \/ PollSleepDone(MaxPolls)

\* The event loop resumes the poll task when what it awaits is done: the
\* fetch ends (the client has a timeout), a free lock is taken, the pass runs
\* to its end, the sleep ends
PollRuns ==
    /\ WF_vars(PollRequestLock)
    /\ WF_vars(PollAcquire)
    /\ WF_vars(PollPassQuiet)
    /\ WF_vars(PollSleepDone(MaxPolls))

SpecLock == Init /\ [][NextLock]_vars /\ PollRuns

\* The service over crashes and restarts, from an empty data_dir
InitRestart ==
    /\ submissions = EmptySM.submissions
    /\ judgements = EmptySM.judgements
    /\ events = EmptySM.events
    /\ previous_state = EmptySM.previous_state
    /\ next_submission_id = EmptySM.next_submission_id
    /\ next_judgement_id = EmptySM.next_judgement_id
    /\ next_token = EmptySM.next_token
    /\ lock = "free"
    /\ disk = NoFiles
    /\ new_events = FALSE
    /\ poll_pc = "down"
    /\ polls = 0
    /\ board = [judged |-> [p \in ExternalProblems |->
                                [attempts |-> 0, is_accepted |-> FALSE]],
                shown |-> {}, time_ms |-> 0]
    /\ last_poll = [outcome |-> "none", calls |-> <<>>, ev_from |-> 0]
    /\ subs = [s \in Subscribers |-> IdleSubscriber]

NextRestart ==
    \/ Startup
    \/ StartupCrashed
    \/ StartupFailed
    \/ Crash
    \/ PollCrashed(RestartPolls, RestartLoad, FeedTimes)
    \/ PollFetched(RestartPolls, RestartLoad, FeedTimes)
    \/ PollFetchFailed(RestartPolls)
    \/ PollSleepDone(RestartPolls - 1)

SpecRestart == InitRestart /\ [][NextRestart]_vars

----------------------------------------------------------------------------
(* Reading the state *)

\* The judgements that reference submission sub_id
JudgementsOf(sub_id) ==
    {j \in 1..Len(judgements) : judgements[j].submission_id = sub_id}

\* The submissions (positions in the table) of a pair
SubmissionsOfPair(team_id, problem_id) ==
    {i \in 1..Len(submissions) : /\ submissions[i].team_id = team_id
                                 /\ submissions[i].problem_id = problem_id}

\* The judgements of a given type attached to the submissions of a pair
PairJudgements(team_id, problem_id, jt) ==
    {j \in 1..Len(judgements) :
        /\ judgements[j].judgement_type_id = jt
        /\ \E i \in SubmissionsOfPair(team_id, problem_id) :
              submissions[i].id = judgements[j].submission_id}

\* The submissions of a pair that have no judgement
PairUnjudged(team_id, problem_id) ==
    {i \in SubmissionsOfPair(team_id, problem_id) : JudgementsOf(submissions[i].id) = {}}

\* The calls of _process_team_problem in the last reconciliation pass
Calls == {last_poll.calls[i] : i \in 1..Len(last_poll.calls)}

Resolved(c) == c.prev.pending_attempts - c.curr.pending_attempts

NewJudged(c) ==
    (c.curr.attempts + Bool2Int(c.curr.is_accepted))
    - (c.prev.attempts + Bool2Int(c.prev.is_accepted))

JustAccepted(c) == c.curr.is_accepted /\ ~c.prev.is_accepted

\* The ids of the submissions and of the judgements a call created
CreatedSubIds(c) == {EntityId(n) : n \in c.sub_from..(c.sub_to - 1)}

CreatedJudgements(c) == c.judg_from..(c.judg_to - 1)

\* The judgements a call created on submissions it created itself
BrandNewPairs(c) ==
    {j \in CreatedJudgements(c) : judgements[j].submission_id \in CreatedSubIds(c)}

----------------------------------------------------------------------------
(* Claims *)

\* C1: the tokens of the Event Log, read in list order, are the decimal strings
\* of 1, 2, ..., n: contiguous, strictly increasing from 1, no duplicates.
TokensContiguous ==
    \A i \in 1..Len(events) : ParseInt(events[i].token) = [ok |-> TRUE, val |-> i]

TokensContiguousWitness ==
    /\ polls = 2
    /\ last_poll.outcome = "ok"
    /\ Len(events) >= Len(BootSM.events) + 4
    /\ Len(last_poll.calls) = 2
    /\ Len(events) > last_poll.ev_from

\* C2: conservation: after a snapshot S of a pair was processed, the pair has
\* S.attempts WA judgements, and an AC judgement iff S.is_accepted.
Conservation ==
    \A c \in Calls :
        /\ Cardinality(PairJudgements(c.team_id, c.problem_id, "WA")) = c.curr.attempts
        /\ (PairJudgements(c.team_id, c.problem_id, "AC") # {}) <=> c.curr.is_accepted

\* C3: after a snapshot S of a pair was processed, the pair has exactly
\* S.pending_attempts submissions without a judgement.
PendingAgrees ==
    \A c \in Calls :
        Cardinality(PairUnjudged(c.team_id, c.problem_id)) = c.curr.pending_attempts

\* C4: no submission id is referenced by two or more judgements.
AtMostOneJudgement ==
    \A i, j \in 1..Len(judgements) :
        i # j => judgements[i].submission_id # judgements[j].submission_id

AtMostOneJudgementWitness ==
    /\ polls = 2
    /\ Len(judgements) >= 3
    /\ \E c \in Calls : ~c.first /\ Cardinality(CreatedJudgements(c)) >= 2
    /\ \E i \in 1..Len(submissions) : JudgementsOf(submissions[i].id) = {}

\* C5: idempotence: a row identical to the stored one creates no event, no
\* submission and no judgement, and raises nothing.
Idempotence ==
    \A c \in Calls :
        (~c.first /\ c.curr = c.prev) =>
            /\ c.ev_to = c.ev_from
            /\ c.sub_to = c.sub_from
            /\ c.judg_to = c.judg_from
            /\ ~c.raised

IdempotenceWitness ==
    \E c \in Calls :
        /\ ~c.first
        /\ c.curr = c.prev
        /\ c.curr.pending_attempts > 0
        /\ c.curr.attempts > 0

\* The pair's submissions that were pending when call c began, oldest first:
\* created before the call and not judged before it
PendingBefore(c) ==
    LET Was(i) == /\ i < c.sub_from
                  /\ submissions[i].team_id = c.team_id
                  /\ submissions[i].problem_id = c.problem_id
                  /\ \A j \in 1..(c.judg_from - 1) :
                        judgements[j].submission_id # submissions[i].id
        idx == {i \in 1..Len(submissions) : Was(i)}
        Rank(i) == Cardinality({k \in idx : k <= i})
    IN  [n \in 1..Cardinality(idx) |-> submissions[CHOOSE i \in idx : Rank(i) = n].id]

\* The RELTIME of a whole number of milliseconds
ReltimeOfMs(ms) ==
    [h |-> ms \div 3600000, m |-> (ms % 3600000) \div 60000,
     s |-> (ms % 60000) \div 1000, ms |-> ms % 1000]

\* C6: pending resolution: when the pending count dropped and the judged count
\* rose, the call does not raise, and the new_judged oldest pending submissions
\* of the pair get, in id order, one judgement each at the snapshot's time, the
\* last one AC if accepted just turned true and the others WA; with nothing
\* left to create directly, no submission is created.
PendingResolution ==
    \A c \in Calls :
        (~c.first /\ Resolved(c) > 0 /\ NewJudged(c) > 0) =>
            LET old == PendingBefore(c)
                n == Min(NewJudged(c), Len(old))
            IN  /\ ~c.raised
                /\ c.judg_to - c.judg_from >= n
                /\ \A k \in 1..n :
                      LET j == judgements[c.judg_from + k - 1]
                      IN  /\ j.submission_id = old[k]
                          /\ j.contest_time = ReltimeOfMs(c.curr.time_ms)
                          /\ j.judgement_type_id =
                                IF JustAccepted(c) /\ k = NewJudged(c) THEN "AC" ELSE "WA"
                /\ NewJudged(c) <= Resolved(c) => c.sub_to = c.sub_from

\* C7: direct new judged submissions: a subsequent observation creates
\* max(0, new_judged - max(resolved, 0)) brand-new submission+judgement pairs,
\* the last one AC if accepted just turned true, all others WA.
DirectPairs ==
    \A c \in Calls :
        ~c.first =>
            LET direct == Max(0, NewJudged(c) - Max(Resolved(c), 0))
                pairs == BrandNewPairs(c)
            IN  /\ Cardinality(pairs) = direct
                /\ \A j \in pairs :
                      judgements[j].judgement_type_id =
                          IF JustAccepted(c) /\ \A k \in pairs : k <= j THEN "AC" ELSE "WA"

\* C8: new pending submissions: when pending_attempts rose by d > 0 while
\* attempts and is_accepted did not change, the call creates exactly d
\* submissions, none of them judged, and no judgement.
NewPendingOnly ==
    \A c \in Calls :
        (/\ ~c.first
         /\ c.curr.pending_attempts > c.prev.pending_attempts
         /\ c.curr.attempts = c.prev.attempts
         /\ c.curr.is_accepted = c.prev.is_accepted) =>
            /\ c.sub_to - c.sub_from = c.curr.pending_attempts - c.prev.pending_attempts
            /\ c.judg_to = c.judg_from
            /\ \A id \in CreatedSubIds(c) : JudgementsOf(id) = {}

\* What bootstrap synthesis is to create as its k-th entity pair (k from 1) for
\* a first snapshot r: a WA pair at floor(step * k) ms, then the AC pair at t,
\* then the pending submissions at t
BootstrapCount(r) == r.attempts + Bool2Int(r.is_accepted) + r.pending_attempts

BootstrapKind(r, k) ==
    IF k <= r.attempts THEN "WA"
    ELSE IF r.is_accepted /\ k = r.attempts + 1 THEN "AC"
    ELSE "pending"

BootstrapMs(r, k) ==
    IF k <= r.attempts
    THEN (r.time_ms * k) \div (r.attempts + Bool2Int(r.is_accepted) + 1)
    ELSE r.time_ms

\* C9: bootstrap synthesis: the first observation (a, p, c, t) of a pair creates
\* nothing when a = 0, p = 0 and c is false; otherwise, in this order, a WA
\* pairs, pair i at step * (i + 1) with step = t / (a + (1 if c) + 1) (as RELTIME
\* renders it, in whole milliseconds), one AC pair at t iff c, and p submissions
\* without judgement at t; each judgement follows its submission in the log;
\* the times never decrease and never exceed t.
BootstrapSynthesis ==
    \A c \in Calls :
        c.first =>
            LET r == c.curr
                n == BootstrapCount(r)
                judged == r.attempts + Bool2Int(r.is_accepted)
                sub(k) == submissions[c.sub_from + k - 1]
            IN  /\ ~c.raised
                /\ c.sub_to - c.sub_from = n
                /\ c.judg_to - c.judg_from = judged
                /\ c.ev_to - c.ev_from = n + judged
                /\ \A k \in 1..n :
                      /\ sub(k).team_id = c.team_id
                      /\ sub(k).problem_id = c.problem_id
                      /\ sub(k).contest_time = ReltimeOfMs(BootstrapMs(r, k))
                      /\ ReltimeMs(sub(k).contest_time) <= r.time_ms
                      /\ k > 1 => ReltimeMs(sub(k - 1).contest_time)
                                    <= ReltimeMs(sub(k).contest_time)
                /\ \A k \in 1..judged :
                      LET j == judgements[c.judg_from + k - 1]
                      IN  /\ j.submission_id = sub(k).id
                          /\ j.judgement_type_id = BootstrapKind(r, k)
                          /\ j.contest_time = sub(k).contest_time
                          /\ events[c.ev_from + 2 * k - 1].id = sub(k).id
                          /\ events[c.ev_from + 2 * k - 1].type = "submissions"
                          /\ events[c.ev_from + 2 * k].id = j.id
                          /\ events[c.ev_from + 2 * k].type = "judgements"
                /\ \A k \in (judged + 1)..n :
                      /\ JudgementsOf(sub(k).id) \cap CreatedJudgements(c) = {}
                      /\ events[c.ev_from + judged + k].id = sub(k).id

\* Scenario A: (a = 2, c = true, t = 5000) gave WA@1250, WA@2500, AC@5000
BootstrapSynthesisWitness ==
    \E c \in Calls :
        /\ c.first
        /\ c.curr = [is_accepted |-> TRUE, attempts |-> 2, pending_attempts |-> 0,
                     time_ms |-> 5000]
        /\ c.judg_to - c.judg_from = 3
        /\ judgements[c.judg_from].judgement_type_id = "WA"
        /\ ReltimeMs(judgements[c.judg_from].contest_time) = 1250
        /\ judgements[c.judg_from + 1].judgement_type_id = "WA"
        /\ ReltimeMs(judgements[c.judg_from + 1].contest_time) = 2500
        /\ judgements[c.judg_from + 2].judgement_type_id = "AC"
        /\ ReltimeMs(judgements[c.judg_from + 2].contest_time) = 5000

\* C9 as the specification words it: WA pair i (0-indexed) of a first
\* observation is timed exactly step * (i + 1) with step = t / (a + (1 if c) + 1).
BootstrapExactTimes ==
    \A c \in Calls :
        c.first =>
            \A k \in 1..Min(c.curr.attempts, c.sub_to - c.sub_from) :
                ReltimeMs(submissions[c.sub_from + k - 1].contest_time)
                    * (c.curr.attempts + Bool2Int(c.curr.is_accepted) + 1)
                = c.curr.time_ms * k

\* The number a token string stands for (0 for no token)
TokenVal(tok) == IF tok = NoToken THEN 0 ELSE ParseInt(tok).val

\* The tokens subscriber s was sent so far
Emitted(s) == {subs[s].out[i] : i \in 1..Len(subs[s].out)}

\* C10: streaming completeness: a connected subscriber that resumed from token
\* T (or from none) and has moved its cursor to token L was sent every event of
\* the log with T < token <= L, also those the poller appended while the
\* backlog was being sent: nothing below the cursor is left out.
StreamingComplete ==
    \A s \in Subscribers :
        subs[s].pc \in {"wait", "live", "keepalive"} =>
            \A i \in 1..Len(events) :
                (/\ TokenVal(events[i].token) > TokenVal(subs[s].since_token)
                 /\ TokenVal(events[i].token) <= TokenVal(subs[s].last_token))
                    => events[i].token \in Emitted(s)

\* C11: streaming order: the tokens a subscriber was sent, backlog then live
\* tail, are strictly increasing (so none is sent twice) and all greater than
\* its resume token.
StreamingOrder ==
    \A s \in Subscribers :
        /\ \A i \in 1..Len(subs[s].out) :
              TokenVal(subs[s].out[i]) > TokenVal(subs[s].since_token)
        /\ \A i \in 1..(Len(subs[s].out) - 1) :
              TokenVal(subs[s].out[i]) < TokenVal(subs[s].out[i + 1])

\* A subscriber that resumed from a token, sent its backlog, and is sending an
\* event of the live tail
StreamingOrderWitness ==
    \E s \in Subscribers :
        /\ subs[s].pc = "live"
        /\ subs[s].since_token # NoToken
        /\ Len(subs[s].out) >= 2
        /\ TokenVal(subs[s].out[1]) <= Len(BootSM.events)
        /\ TokenVal(subs[s].out[Len(subs[s].out)]) > Len(BootSM.events)

\* Subscriber s is in live-tail mode: past the backlog, in the while loop
LiveTail(s) == subs[s].pc \in {"wait", "live", "keepalive"}

\* The tokens events appended by the poll task can carry
AppendedTokens ==
    (Len(BootSM.events) + 1)..(Len(BootSM.events) + 2 * FeedPolls * FeedLoad)

\* C12: live-tail liveness: an event that is in the log beyond the cursor of a
\* subscriber in live-tail mode (so appended after it entered that mode) is
\* eventually sent to it as long as it stays connected.
LiveTailDelivers ==
    \A s \in Subscribers : \A k \in AppendedTokens :
        (LiveTail(s) /\ k <= Len(events) /\ k > TokenVal(subs[s].last_token))
            ~> (StrOfInt(k) \in Emitted(s))

\* A subscriber is sending an event of the live tail that the other one was
\* sent before it, the shared signal being cleared
LiveTailDeliversWitness ==
    \E s, u \in Subscribers :
        /\ s # u
        /\ subs[s].pc = "live"
        /\ TokenVal(Head(subs[s].buf).token) \in AppendedTokens
        /\ TokenVal(Head(subs[s].buf).token) > TokenVal(subs[s].last_token)
        /\ Head(subs[s].buf).token \in Emitted(u)
        /\ LiveTail(u)
        /\ ~new_events

\* What get_since answers on the log as it stands, without a token and with
\* every valid token T, 0 <= T <= highest token issued
GetSinceValues ==
    /\ GetEventsSinceToken(events, next_token, NoToken) = [error |-> "none", events |-> events]
    /\ \A T \in 0..(next_token - 1) :
          LET got == GetEventsSinceToken(events, next_token, StrOfInt(T))
              later == {j \in 1..Len(events) : TokenVal(events[j].token) > T}
          IN  /\ got.error = "none"
              /\ Len(got.events) = Cardinality(later)
              /\ \A i \in 1..Len(got.events) : TokenVal(got.events[i].token) > T
              /\ \A j \in later : \E i \in 1..Len(got.events) : got.events[i] = events[j]
              /\ \A i \in 1..(Len(got.events) - 1) :
                    TokenVal(got.events[i].token) < TokenVal(got.events[i + 1].token)
              /\ T = 0 => got.events = events
              /\ T = next_token - 1 => got.events = <<>>

\* C13: get_since: without a token the full log; with a valid token T exactly
\* the events with token > T, in token order (all of them for T = 0, none for
\* the highest token); and the steps that call it, those of the subscribers,
\* leave the log, the tables and the counters as they are.
GetSince ==
    /\ []GetSinceValues
    /\ [][poll_pc' = poll_pc => UNCHANGED sm_vars]_vars

\* A subscriber resumed from a token below the highest one, on a log the poll
\* task has appended to, and was sent the first event after its token
GetSinceWitness ==
    \E s \in Subscribers :
        /\ subs[s].since_token # NoToken
        /\ Len(events) > Len(BootSM.events)
        /\ subs[s].pc = "backlog"
        /\ subs[s].buf # <<>>
        /\ TokenVal(subs[s].out[1]) = TokenVal(subs[s].since_token) + 1

\* Tokens that int() does not parse, and the decimal numerals around the
\* valid range 0..next_token-1
Unparseable == {<<"x">>, <<>>, <<"-">>, <<"1", "x">>}
Numerals == {StrOfInt(n) : n \in {-2, -1, 0, next_token - 1, next_token, next_token + 1}}

\* The error kind the specification gives a token
ErrorKind(tok) ==
    IF tok = NoToken THEN "none"
    ELSE IF tok \in Unparseable THEN "Invalid token format"
    ELSE IF Head(tok) = "-" THEN "Invalid token"
    ELSE IF \E n \in 0..(next_token - 1) : tok = StrOfInt(n) THEN "none"
    ELSE "Unknown token"

TokenErrors ==
    /\ \A tok \in Unparseable \cup Numerals :
          LET got == GetEventsSinceToken(events, next_token, tok)
          IN  /\ got.error = ErrorKind(tok)
              /\ got.error # "none" => got.events = <<>>
              /\ ValidateSinceToken(next_token, tok) = got.error
    /\ \A s \in Subscribers :
          /\ subs[s].error # "none" =>
                /\ subs[s].pc = "rejected"
                /\ subs[s].out = <<>>
          /\ subs[s].pc = "rejected" =>
                /\ subs[s].error \in {"Invalid token format", "Invalid token", "Unknown token"}

\* C14: a token that is not an integer, is negative, or is above the highest
\* token issued fails with its own error kind, in get_since and in the
\* endpoint alike; the endpoint answers before any event is sent, and the
\* step that rejects leaves the log, tables and counters as they are.
TokenValidation ==
    /\ []TokenErrors
    /\ [][\A s \in Subscribers :
             (subs'[s].pc = "rejected" /\ subs[s].pc # "rejected") =>
                 /\ subs'[s].error = ErrorKind(subs'[s].since_token)
                 /\ UNCHANGED sm_vars]_vars
    /\ [][\A s \in Subscribers :
             (subs'[s].pc = "start" /\ subs[s].pc # "start") =>
                 ErrorKind(subs'[s].since_token) = "none"]_vars

\* One client was rejected for a token above the highest issued, another for
\* a negative one, on a log the poll task has appended to
TokenValidationWitness ==
    /\ Len(events) > Len(BootSM.events)
    /\ \E s, u \in Subscribers :
          /\ subs[s].pc = "rejected" /\ subs[s].error = "Unknown token"
          /\ subs[u].pc = "rejected" /\ subs[u].error = "Invalid token"

\* The tokens replay is compared on: 0 and the tokens from the last static
\* event on
ReplayTokens == {0} \cup ((Len(BootSM.events) - 1)..(next_token - 1))

AfterToken(evs, T) == SelectSeq(evs, LAMBDA e : TokenVal(e.token) > T)

\* C15: replay equivalence: on one log, for valid tokens T < T', get_since(T')
\* is a suffix of get_since(T): the events of get_since(T) with token > T'.
ReplayEquivalence ==
    \A T, T2 \in ReplayTokens :
        T < T2 =>
            LET a == GetEventsSinceToken(events, next_token, StrOfInt(T)).events
                b == GetEventsSinceToken(events, next_token, StrOfInt(T2)).events
            IN  /\ Len(b) <= Len(a)
                /\ b = SubSeq(a, Len(a) - Len(b) + 1, Len(a))
                /\ b = AfterToken(a, T2)

\* Two clients replayed one log from different tokens, and both were sent events
ReplayEquivalenceWitness ==
    \E s, u \in Subscribers :
        /\ subs[s].pc = "backlog" /\ subs[u].pc = "backlog"
        /\ subs[s].since_token # NoToken /\ subs[u].since_token # NoToken
        /\ TokenVal(subs[s].since_token) < TokenVal(subs[u].since_token)
        /\ subs[s].out # <<>> /\ subs[u].out # <<>>

\* The process is serving
Up == poll_pc \in {"fetch", "sleep"}

\* The process has just started: what it holds is what it loaded
JustStarted == Up /\ last_poll.outcome = "startup"

IdsBelow(table, n) == \A i \in 1..Len(table) : \E k \in 1..(n - 1) : table[i].id = EntityId(k)

\* C16: crash-consistent persistence: whatever the point of the crash, in
\* the state a restart loads the next_token is greater than every token
\* of the loaded log, the loaded id counters are greater than every id of the
\* loaded tables, and the loaded log and tables are of one save (an entity is
\* in its table if and only if the log has its event).
CrashConsistent ==
    JustStarted =>
          /\ \A i \in 1..Len(events) : TokenVal(events[i].token) < next_token
          /\ IdsBelow(submissions, next_submission_id)
          /\ IdsBelow(judgements, next_judgement_id)
          /\ \A i \in 1..Len(events) :
                /\ events[i].type = "submissions" => HasKey(submissions, events[i].id)
                /\ events[i].type = "judgements" => HasKey(judgements, events[i].id)
          /\ \A i \in 1..Len(submissions) :
                \E j \in 1..Len(events) : /\ events[j].type = "submissions"
                                          /\ events[j].id = submissions[i].id
          /\ \A i \in 1..Len(judgements) :
                \E j \in 1..Len(events) : /\ events[j].type = "judgements"
                                          /\ events[j].id = judgements[i].id

\* What a start holds after _load and initialize_static_events, read off the
\* files d: the content of each file, the initial value for a missing one,
\* and the static events on an empty log
Restored(d) ==
    LET Had(f) == f \notin d.absent
    IN  /\ submissions' = IF Had("submissions") THEN d.submissions ELSE <<>>
        /\ judgements' = IF Had("judgements") THEN d.judgements ELSE <<>>
        /\ previous_state' = IF Had("previous_state") THEN d.previous_state ELSE <<>>
        /\ next_submission_id' = IF Had("meta") THEN d.meta.next_submission_id ELSE 1
        /\ next_judgement_id' = IF Had("meta") THEN d.meta.next_judgement_id ELSE 1
        /\ IF Had("events") /\ d.events # <<>>
           THEN /\ events' = d.events
                /\ next_token' = IF Had("meta") THEN d.meta.next_token ELSE 1
           ELSE /\ Len(events') = Len(BootSM.events)
                /\ next_token' = Len(BootSM.events)
                                  + (IF Had("meta") THEN d.meta.next_token ELSE 1)

\* C17: persistence round trip: after a completed save the files hold the
\* memory of the StateManager and _load gives it back; a start holds what the
\* files hold; with no files it is the empty state with the counters at 1
\* (to which the start adds the static events).
RoundTrip ==
    /\ [](Up /\ last_poll.outcome = "ok" =>
             /\ disk = Files(SM)
             /\ LoadFiles(disk) = [error |-> FALSE, sm |-> SM])
    /\ [](LoadFiles(NoFiles) = [error |-> FALSE, sm |-> EmptySM])
    /\ [][(poll_pc = "down" /\ poll_pc' = "fetch") => Restored(disk)]_vars
    /\ [](JustStarted /\ polls = 0 /\ last_poll.ev_from = 0 => SM = BootSM)

\* A restart after a poll cycle that saved submissions and judgements: the
\* files are those of that save and the memory is theirs
RoundTripWitness ==
    /\ JustStarted
    /\ polls > 0
    /\ judgements # <<>>
    /\ previous_state # <<>>
    /\ disk = Files(SM)
    /\ next_token = Len(events) + 1

StaticKinds == {"contests", "judgement-types", "languages", "problems", "teams"}

\* C18: static initialization: a serving process has the static events at
\* the head of its log, in the order contest, judgement-types, languages,
\* problems, teams, and nowhere else, however many times it was restarted;
\* initialize_static_events leaves a non-empty log, and a start from a
\* non-empty log leaves the log, the counter and the files, as they are.
StaticInitialization ==
    /\ [](Up =>
             /\ Len(events) >= Len(BootSM.events)
             /\ \A i \in 1..Len(BootSM.events) :
                   /\ events[i].type = BootSM.events[i].type
                   /\ events[i].id = BootSM.events[i].id
             /\ \A i \in (Len(BootSM.events) + 1)..Len(events) :
                   events[i].type \notin StaticKinds
             /\ InitializeStaticEvents(SM) = SM)
    /\ [][(poll_pc = "down" /\ poll_pc' = "fetch" /\ LoadFiles(disk).sm.events # <<>>) =>
             /\ events' = LoadFiles(disk).sm.events
             /\ next_token' = LoadFiles(disk).sm.next_token
             /\ disk' = disk]_vars

\* A second restart from a log that holds static and later events
StaticInitializationWitness ==
    /\ JustStarted
    /\ last_poll.ev_from > Len(BootSM.events)
    /\ polls = RestartPolls
    /\ disk.absent = {}

\* C19: fetch failure: the cycle whose fetch raises appends no event and
\* leaves the previous-state map, the tables, the counters and the files as
\* they are; the poll task goes to its sleep, and from the sleep to a new
\* fetch.
FetchFailure ==
    /\ [][last_poll'.outcome = "fetch_failed" /\ polls' = polls + 1 =>
             /\ UNCHANGED <<sm_vars, disk, new_events>>
             /\ poll_pc = "fetch"
             /\ poll_pc' = "sleep"]_vars
    /\ [][poll_pc = "sleep" => poll_pc' = "fetch" /\ UNCHANGED <<sm_vars, disk>>]_vars
    /\ [](poll_pc \in {"fetch", "sleep"})

\* After a cycle that recorded results, and the sleep that follows it, the
\* next fetch raised, and the task sleeps again
FetchFailureWitness ==
    /\ last_poll.outcome = "fetch_failed"
    /\ polls = 2
    /\ poll_pc = "sleep"
    /\ previous_state # <<>>
    /\ judgements # <<>>
    /\ disk = Files(SM)

\* C20: reconciliation error isolation: when a call of _process_team_problem
\* raised in a poll cycle, the task goes on to its sleep, and every other
\* pair of the batch was reconciled and has the result of the batch as
\* its previous-state entry.
ErrorIsolation ==
    last_poll.outcome = "error" =>
        /\ poll_pc = "sleep"
        /\ \A p \in board.shown :
              LET team_id == MapGet(team_mapping, ExternalTeam)
                  problem_id == MapGet(problem_mapping, p)
              IN  \/ \E i \in 1..Len(last_poll.calls) :
                        /\ last_poll.calls[i].raised
                        /\ last_poll.calls[i].problem_id = problem_id
                  \/ /\ \E i \in 1..Len(last_poll.calls) :
                            last_poll.calls[i].problem_id = problem_id
                     /\ team_id \in DOMAIN previous_state
                     /\ problem_id \in DOMAIN previous_state[team_id]
                     /\ previous_state[team_id][problem_id].attempts = board.judged[p].attempts
                     /\ previous_state[team_id][problem_id].is_accepted = board.judged[p].is_accepted
                     /\ previous_state[team_id][problem_id].time_ms = board.time_ms

\* The step changes what process_scoreboard writes
PassWrites ==
    \/ events' # events
    \/ submissions' # submissions
    \/ judgements' # judgements
    \/ previous_state' # previous_state

\* The calls recorded by the step are one pass: they start where the log
\* stood, each starts where the one before ended, the last ends where the
\* log stands
WholePass ==
    LET calls == last_poll'.calls
    IN  /\ last_poll'.ev_from = Len(events)
        /\ IF calls = <<>> THEN events' = events
           ELSE /\ calls[1].ev_from = Len(events)
                /\ \A i \in 1..(Len(calls) - 1) :
                      /\ calls[i].ev_to = calls[i + 1].ev_from
                      /\ ~calls[i].raised
                /\ calls[Len(calls)].ev_to = Len(events')
        /\ last_poll'.outcome = "ok" =>
              \A p \in board'.shown :
                  \E i \in 1..Len(calls) :
                      /\ calls[i].problem_id = MapGet(problem_mapping, p)
                      /\ previous_state'[calls[i].team_id][calls[i].problem_id] = calls[i].curr

IsPrefix(a, b) == Len(a) <= Len(b) /\ a = SubSeq(b, 1, Len(a))

\* C22: append-only log and immutable entities: in every step of a running
\* process the log, the submissions and the judgements it had are still
\* there, in their places and as they were; what is new comes after them.
AppendOnly ==
    [][(Up /\ poll_pc' \in {"fetch", "sleep"}) =>
          /\ IsPrefix(events, events')
          /\ IsPrefix(submissions, submissions')
          /\ IsPrefix(judgements, judgements')]_vars

\* The fetched batch without its unmapped row and its unmapped result
MappedRows(ea, eb) == <<[team_id |-> ExternalTeam, results |-> ea \o eb]>>

\* The unmapped row alone
UnmappedRows ==
    <<[team_id |-> UnmappedTeam,
       results |-> <<[problem |-> "PA", result |-> UnmappedResult]>>]>>

\* C23: unmapped rows: a pass over a batch with a row of an unmapped team and
\* a result of an unmapped problem ends as the pass over the batch without
\* them (same tables, log, map, counters, calls and error); a pass over the
\* unmapped row alone changes nothing; no submission, call or previous-state
\* entry ever names an unmapped team or problem.
UnmappedIgnored ==
    /\ ProcessRows(SM, UnmappedRows) = SM
    /\ \A t \in {x \in Times : x >= board.time_ms} :
          \A ea \in Entries("PA", t, MaxLoad - BoardLoad("PB")) :
             \A eb \in Entries("PB", t, MaxLoad - EntryLoad("PA", ea)) :
                ProcessRows(SM, FetchedRows(ea, eb)) = ProcessRows(SM, MappedRows(ea, eb))
    /\ \A i \in 1..Len(submissions) :
          /\ submissions[i].team_id = "t1"
          /\ submissions[i].problem_id \in {"a", "b"}
    /\ \A i \in 1..Len(last_poll.calls) :
          /\ last_poll.calls[i].team_id = "t1"
          /\ last_poll.calls[i].problem_id \in {"a", "b"}
    /\ DOMAIN previous_state \subseteq {"t1"}
    /\ \A x \in DOMAIN previous_state : DOMAIN previous_state[x] \subseteq {"a", "b"}

\* The first batch, with its unmapped row and result, gave both mapped pairs
\* submissions
UnmappedIgnoredWitness ==
    /\ polls = 1
    /\ last_poll.outcome = "ok"
    /\ Len(last_poll.calls) = 2
    /\ \A i \in 1..2 : last_poll.calls[i].sub_to > last_poll.calls[i].sub_from
    /\ DOMAIN previous_state["t1"] = {"a", "b"}

\* C24: keepalive: a subscriber goes to the keepalive line only from the
\* wait, on a re-query that found no event after its last_token, and with at
\* least KeepaliveAfter seconds on its clock since last_send_time; going to
\* the line and coming back from it leave last_token and what was sent as
\* they are, and the first event sent after any wait is the one that follows
\* last_token.
Keepalive ==
    /\ [](\A s \in Subscribers :
             subs[s].pc = "keepalive" => subs[s].silent >= KeepaliveAfter)
    /\ [][\A s \in Subscribers :
             (subs'[s].pc = "keepalive" /\ subs[s].pc # "keepalive") =>
                 /\ subs[s].pc = "wait"
                 /\ AfterToken(events, TokenVal(subs[s].last_token)) = <<>>
                 /\ subs'[s].last_token = subs[s].last_token
                 /\ subs'[s].out = subs[s].out]_vars
    /\ [][\A s \in Subscribers :
             subs[s].pc = "keepalive" =>
                 /\ subs'[s].pc \in {"keepalive", "wait"}
                 /\ subs'[s].last_token = subs[s].last_token
                 /\ subs'[s].out = subs[s].out]_vars
    /\ [][\A s \in Subscribers :
             (subs[s].pc = "wait" /\ subs'[s].pc = "live") =>
                 /\ subs'[s].out = Append(subs[s].out, subs'[s].buf[1].token)
                 /\ TokenVal(subs'[s].buf[1].token) = TokenVal(subs[s].last_token) + 1]_vars

\* A subscriber that was sent an event of a poll in its live loop has been
\* silent for KeepaliveAfter seconds since and is at the keepalive line
KeepaliveWitness ==
    \E s \in Subscribers :
        /\ subs[s].pc = "keepalive"
        /\ subs[s].silent = KeepaliveAfter
        /\ Len(events) > Len(BootSM.events)
        /\ subs[s].last_token = GetLastToken(events)
        /\ subs[s].out # <<>>
        /\ subs[s].out[Len(subs[s].out)] = subs[s].last_token

\* C25: subscriber disconnection: the step in which a subscriber's stream is
\* closed, wherever the subscriber stood, leaves the log, the tables, the
\* previous-state map, the counters, the files and the signal as they are,
\* and every other subscriber where it was, with its cursor, its buffer and
\* what it was sent.
DisconnectIsolated ==
    [][\A s \in Subscribers :
          (subs'[s].pc = "closed" /\ subs[s].pc # "closed") =>
              /\ UNCHANGED <<sm_vars, disk, new_events>>
              /\ \A u \in Subscribers \ {s} : subs'[u] = subs[u]]_vars

\* One subscriber is gone; another, connected all along, is in its live loop
\* with events of the poll sent, the signal still set
DisconnectIsolatedWitness ==
    \E s, u \in Subscribers :
        /\ subs[s].pc = "closed"
        /\ subs[u].pc = "live"
        /\ Len(subs[u].out) >= 2
        /\ subs[u].out[Len(subs[u].out)] = GetLastToken(events)
        /\ Len(events) > Len(BootSM.events)

\* C26: broadcast wake-up: a subscriber of the live loop that is at its wait
\* while the log holds events after its last_token has been woken by the
\* signal (it does not sit out its timeout), whatever the other subscribers
\* did with the signal.
BroadcastWake ==
    \A s \in Subscribers :
        (subs[s].pc = "wait" /\ AfterToken(events, TokenVal(subs[s].last_token)) # <<>>)
            => subs[s].woken

\* The events the last pass appended before it raised
AbortedEvents ==
    IF last_poll.outcome = "error"
    THEN SubSeq(events, last_poll.ev_from + 1, Len(events)) ELSE <<>>

\* C27: persistence only of complete cycles: when the last pass raised after
\* it had appended events, no later write of the files carries those events:
\* the log that is written does not hold them in the places the aborted
\* pass gave them.
CompleteCyclesOnly ==
    [][(AbortedEvents # <<>> /\ disk' # disk) =>
          SubSeq(disk'.events, last_poll.ev_from + 1, Len(events)) # AbortedEvents]_vars

----------------------------------------------------------------------------
(* C28: when the Previous-State Map is updated within a batch *)

\* The calls of the pass before call i that were for the same pair
EarlierCalls(calls, i) ==
    {j \in 1..(i - 1) : /\ calls[j].team_id = calls[i].team_id
                        /\ calls[j].problem_id = calls[i].problem_id}

\* The last of a set of calls
Latest(S) == CHOOSE j \in S : \A k \in S : k <= j

\* The entry of the pair in a Previous-State Map, UnseenResult if it has none
EntryOf(ps, team_id, problem_id) ==
    IF team_id \in DOMAIN ps /\ problem_id \in DOMAIN ps[team_id]
    THEN ps[team_id][problem_id] ELSE UnseenResult

SeenIn(ps, team_id, problem_id) ==
    team_id \in DOMAIN ps /\ problem_id \in DOMAIN ps[team_id]

\* C28 as it stands: in a pass every pair is diffed against the Previous-State
\* Map as it stood before the batch, two rows of one team included
BatchLevelUpdate ==
    [][polls' = polls + 1 =>
         \A i \in 1..Len(last_poll'.calls) :
            LET c == last_poll'.calls[i]
            IN  /\ c.first = ~SeenIn(previous_state, c.team_id, c.problem_id)
                /\ c.prev = EntryOf(previous_state, c.team_id, c.problem_id)]_vars

\* C28, amended: the map is updated row by row. A pair is diffed against the
\* map as it stood before the batch if no earlier row of the batch had the
\* pair, and against the result the latest such row stored otherwise; after a
\* pass that did not raise, the entry of every pair the batch had is the
\* result of the last row that had it.
RowLevelUpdate ==
    [][polls' = polls + 1 =>
         LET calls == last_poll'.calls
         IN  /\ \A i \in 1..Len(calls) :
                   LET c == calls[i]
                       earlier == EarlierCalls(calls, i)
                   IN  IF earlier = {}
                       THEN /\ c.first = ~SeenIn(previous_state, c.team_id, c.problem_id)
                            /\ c.prev = EntryOf(previous_state, c.team_id, c.problem_id)
                       ELSE /\ ~c.first
                            /\ c.prev = calls[Latest(earlier)].curr
             /\ last_poll'.outcome = "ok" =>
                   \A i \in 1..Len(calls) :
                      (\A j \in (i + 1)..Len(calls) : i \notin EarlierCalls(calls, j))
                         => EntryOf(previous_state', calls[i].team_id,
                                    calls[i].problem_id) = calls[i].curr]_vars

\* A pass had the same pair in two rows, the first row moved the pair, and the
\* second row, diffed against what the first stored, created events of its own
RowLevelUpdateWitness ==
    /\ last_poll.outcome = "ok"
    /\ \E j \in 1..Len(last_poll.calls) :
          \E i \in EarlierCalls(last_poll.calls, j) :
             /\ last_poll.calls[i].prev # last_poll.calls[i].curr
             /\ last_poll.calls[j].prev = last_poll.calls[i].curr
             /\ last_poll.calls[j].ev_to > last_poll.calls[j].ev_from

----------------------------------------------------------------------------
(* C29: cancellation of the poll task *)

Cancelled == poll_pc \in {"cancelled_fetch", "cancelled_sleep"}

\* C29: the cancellation reaches the poll task in the fetch or in the sleep and
\* changes neither the log, the tables, the Previous-State Map and the
\* counters nor the files: they stay as the last pass left them, and stay so
\* ever after; after a cancellation that follows a pass that returned, memory
\* and files hold the same whole batches.
Cancellation ==
    /\ [][(Cancelled' /\ ~Cancelled) =>
             /\ poll_pc \in {"fetch", "sleep"}
             /\ UNCHANGED <<sm_vars, disk, last_poll>>]_vars
    /\ [][Cancelled => (Cancelled' /\ UNCHANGED <<sm_vars, disk>>)]_vars
    /\ []((Cancelled /\ last_poll.outcome \in {"none", "ok"}) =>
             /\ disk = Files(SM)
             /\ Len(events) = IF last_poll.outcome = "none" THEN Len(BootSM.events)
                              ELSE IF last_poll.calls = <<>> THEN last_poll.ev_from
                              ELSE last_poll.calls[Len(last_poll.calls)].ev_to)

\* The task was cancelled in its second fetch, after a pass that appended
CancellationWitness ==
    /\ poll_pc = "cancelled_fetch"
    /\ polls = 1
    /\ last_poll.outcome = "ok"
    /\ Len(events) > last_poll.ev_from

----------------------------------------------------------------------------
(* C30: no deadlock on the lock of process_scoreboard *)

\* C30: the poll task never asks for the lock while it holds it; the lock is
\* held during a pass only and is free at the end of every pass, a pass that
\* raised included; every request of the lock is followed by its acquisition,
\* and poll cycles go on for ever.
NoDeadlock ==
    /\ [](poll_pc = "acquire" => lock = "free")
    /\ [](lock = "poll" <=> poll_pc = "pass")
    /\ [][(poll_pc = "pass" /\ poll_pc' # "pass") =>
             (poll_pc' = "sleep" /\ lock' = "free")]_vars
    /\ (poll_pc = "acquire") ~> (lock = "poll")
    /\ (lock = "poll") ~> (lock = "free")
    /\ []<>(poll_pc = "fetch")
    /\ []<>(poll_pc = "sleep")

\* The lock is held again in the cycle after a pass that raised
NoDeadlockWitness ==
    /\ lock = "poll"
    /\ poll_pc = "pass"
    /\ last_poll.outcome = "error"

----------------------------------------------------------------------------
(* C31: the counters against the log and the tables *)

\* No two entries of a table have the same id
UniqueIds(table) ==
    \A i, j \in 1..Len(table) : table[i].id = table[j].id => i = j

\* C31: in every state of a running process next_token is the number of
\* events + 1, next_submission_id the number of submissions + 1 and
\* next_judgement_id the number of judgements + 1, the ids of each table are
\* unique, and no counter decreases within the process.
CounterInvariants ==
    /\ [](Up => /\ next_token = Len(events) + 1
                /\ next_submission_id = Len(submissions) + 1
                /\ next_judgement_id = Len(judgements) + 1
                /\ UniqueIds(submissions)
                /\ UniqueIds(judgements))
    /\ [][(Up /\ Up') => /\ next_token' >= next_token
                         /\ next_submission_id' >= next_submission_id
                         /\ next_judgement_id' >= next_judgement_id]_vars

----------------------------------------------------------------------------
(* C32: references between the tables and the log *)

\* The positions in the log of the events of an entity
EventsOf(event_type, obj_id) ==
    {k \in 1..Len(events) : events[k].type = event_type /\ events[k].id = obj_id}

\* The entries of table' that a call created, by its range of the counter
CreatedBy(table, from, to) ==
    {i \in 1..Len(table) : \E n \in from..(to - 1) : table[i].id = EntityId(n)}

\* C32: every judgement's submission_id names a submission of the table;
\* every submission and every judgement has exactly one event in the log, a
\* create event; the token of a judgement's event is greater than the token
\* of the event of its submission; and the judgements a call creates are on
\* submissions of the pair of the call.
Referential ==
    /\ [](/\ \A j \in 1..Len(judgements) : HasKey(submissions, judgements[j].submission_id)
          /\ \A i \in 1..Len(submissions) :
                /\ Cardinality(EventsOf("submissions", submissions[i].id)) = 1
                /\ \A k \in EventsOf("submissions", submissions[i].id) :
                      events[k].op = "create"
          /\ \A j \in 1..Len(judgements) :
                /\ Cardinality(EventsOf("judgements", judgements[j].id)) = 1
                /\ \A k \in EventsOf("judgements", judgements[j].id) :
                      /\ events[k].op = "create"
                      /\ \A m \in EventsOf("submissions", judgements[j].submission_id) :
                            TokenVal(events[k].token) > TokenVal(events[m].token))
    /\ [][polls' = polls + 1 =>
             \A n \in 1..Len(last_poll'.calls) :
                LET c == last_poll'.calls[n]
                IN  \A j \in CreatedBy(judgements', c.judg_from, c.judg_to) :
                       \E i \in 1..Len(submissions') :
                          /\ submissions'[i].id = judgements'[j].submission_id
                          /\ submissions'[i].team_id = c.team_id
                          /\ submissions'[i].problem_id = c.problem_id]_vars

----------------------------------------------------------------------------
(* C33: the AC judgements of a pair *)

\* C33: after any sequence of polls with monotonic snapshots, every pair
\* has at most one AC judgement.
AtMostOneAC ==
    \A i \in 1..Len(submissions) :
        Cardinality(PairJudgements(submissions[i].team_id,
                                   submissions[i].problem_id, "AC")) <= 1

====
